---- MODULE Spec2Model ----
(***************************************************************************)
(* A model of the Gemini helper scripts under scripts/gemini:              *)
(*   - the parallel / sequential probe runner (run_test of test-models.py  *)
(*     and main of test-gemini-models.py) on a ThreadPoolExecutor;         *)
(*   - the HTTP probe primitives of the scripts;                           *)
(*   - the .env loaders and writers.                                       *)
(* Text is modelled as sequences of one-character strings, so that strip,  *)
(* partition, split and join are computed as Python computes them.         *)
(***************************************************************************)
EXTENDS Integers, Sequences, FiniteSets, TLC

VARIABLES
    script,            \* which script's batch is running
    models,            \* the list of model names given to the batch
    parallel,          \* run_test's parallel argument
    pc,                \* position of the dispatching thread
    fut,               \* per task: the future's state and what it holds
    resp,              \* per task: what the task's HTTP call did (None before)
    pre,               \* as_completed: futures finished at the call, not yet yielded
    finished_futures,  \* as_completed: waiter.finished_futures
    results,           \* run_test's results list / main's results dict
    pending,           \* as_completed: futures not finished at the call, not yet yielded
    completion,        \* finished tasks whose future is not yet yielded, oldest first
    printed,           \* (model, result) pairs printed by the report loop
    saved,             \* (model, result) pairs written to result files
    kscript,           \* which key-checking script is running
    kpc,               \* its position
    kkeys,             \* the key names that have a value in the configuration
    klog,              \* its probes so far: key name, HTTP outcome, what the call did
    file,              \* the .env file: whether it exists, and its text
    environ,           \* os.environ, as far as the scripts write it
    env_vars,          \* the dict of the running script
    written,           \* the dict most recently given to save_env
    eop,               \* the running script, its last operation on the file,
                       \* and what its last load_env returned
    proc               \* the process: its flags, its diagnostics, the count of
                       \* successes it reported, whether and how it has exited

poolVars == <<script, models, parallel, pc, fut, resp, pre, finished_futures,
              results, pending, completion, printed, saved>>

keyVars == <<kscript, kpc, kkeys, klog>>

envVars == <<file, environ, env_vars, written, eop>>

vars == <<poolVars, keyVars, envVars, proc>>

-----------------------------------------------------------------------------
(* Bounds of the model.                                                    *)

\* Largest batch of the general specification.
MaxTasks == 3

\* Tasks beyond the pool size in the pool-cap specification.
MaxExtra == 1

\* Most lines of a .env file.
MaxLines == 3

-----------------------------------------------------------------------------
(* Program constants.                                                      *)

\* ThreadPoolExecutor(max_workers=5)
max_workers == 5

\* MODELS of test-models.py
MODELS == <<"gemini-2.5-pro", "gemini-2.5-flash">>

\* models of main, test-gemini-models.py
GM_MODELS == <<"gemini-2.5-pro", "gemini-2.5-flash", "gemini-2.0-flash">>

None == "None"

\* resp of a task whose HTTP call has not ended.
NoCall == [kind |-> None]

\* What the user typed at the prompts of the latest step: nothing yet.
NothingTyped ==
    [update |-> FALSE, new_key |-> <<>>, r |-> NoCall, anyway |-> FALSE, save |-> FALSE]

-----------------------------------------------------------------------------
(* What one HTTP call can do.                                              *)

\* urlopen raised URLError / a socket error (no connection, timeout).
UrlError(msg) == [kind |-> "URLError", msg |-> msg]

\* urlopen raised HTTPError: a non-2xx status with an error body, whose
\* bytes are valid UTF-8 (utf8 = TRUE) or not.
HttpError(code, utf8, body) ==
    [kind |-> "HTTPError", code |-> code, utf8 |-> utf8, body |-> body]

\* A 2xx response whose body is not JSON.
NotJson == [kind |-> "NotJson", msg |-> "Expecting value: line 1 column 1 (char 0)"]

\* A 2xx response with a JSON object: hasCandidates says whether it has a
\* 'candidates' member, candidates is that array; hasError: the object
\* carries an 'error' member.
Json(hasCandidates, candidates, hasError) ==
    [kind |-> "Json", hasCandidates |-> hasCandidates,
     candidates |-> candidates, hasError |-> hasError]

\* A candidate: finishReason (None when missing), where its text part sits
\* ("content", "parts" or "none") and the text.
Candidate(finish, where, text) ==
    [finishReason |-> finish, where |-> where, text |-> text]

TimedOut    == UrlError("<urlopen error timed out>")
Refused     == UrlError("<urlopen error [Errno 111] Connection refused>")
GoodJson    == Json(TRUE, <<Candidate("STOP", "content", <<" ", "o", "k">>)>>, FALSE)
NoCandJson  == Json(FALSE, <<>>, TRUE)

\* The HTTP outcomes the batch specifications draw from.
BatchResponses ==
    { GoodJson, NoCandJson, NotJson, TimedOut,
      HttpError(429, TRUE, "{}"), HttpError(500, FALSE, "") }

-----------------------------------------------------------------------------
(* Python's str operations on sequences of characters.                     *)

Whitespace == {" ", "\t", "\n", "\r"}
Quotes     == {"\"", "'"}

RECURSIVE LStrip(_, _)
LStrip(s, chars) ==
    IF s # <<>> /\ Head(s) \in chars THEN LStrip(Tail(s), chars) ELSE s

RECURSIVE RStrip(_, _)
RStrip(s, chars) ==
    IF s # <<>> /\ s[Len(s)] \in chars
    THEN RStrip(SubSeq(s, 1, Len(s) - 1), chars)
    ELSE s

\* s.strip(chars)
StripChars(s, chars) == RStrip(LStrip(s, chars), chars)

\* s.strip()
strip(s) == StripChars(s, Whitespace)

\* s.strip('"\'')
strip_quotes(s) == StripChars(s, Quotes)

-----------------------------------------------------------------------------
(* The probe primitives.  A call either returns a value or raises.         *)

Return(v)  == [raised |-> FALSE, value |-> v]
Raise(exc) == [raised |-> TRUE, exc |-> exc]

\* test-models.py: the dict test_model returns.
NoOutput == [text |-> <<>>, msg |-> None]
Success(output) == [success |-> TRUE, output |-> output, error |-> None]
Failure(error)  == [success |-> FALSE, output |-> NoOutput, error |-> error]

\* An extraction that does not look at the finish reason.
candidate_text_first(candidate) ==
    CASE candidate.where \in {"content", "parts"} ->
            [text |-> strip(candidate.text), msg |-> None]
      [] candidate.where = "content_no_text" ->
            [text |-> <<>>, msg |-> "No text in response content"]
      [] candidate.where = "parts_no_text" ->
            [text |-> <<>>, msg |-> "No text in response parts"]
      [] OTHER ->
            [text |-> <<>>, msg |-> "No text found"]

\* The output text test_model takes from the first candidate.
candidate_output(candidate) ==
    LET finish_reason ==
            IF candidate.finishReason = None THEN "UNKNOWN"
            ELSE candidate.finishReason
    IN  CASE finish_reason = "MAX_TOKENS" ->
                [text |-> <<>>,
                 msg |-> "Response truncated (hit token limit: " \o finish_reason \o ")"]
          [] finish_reason = "SAFETY" ->
                [text |-> <<>>,
                 msg |-> "Response blocked by safety filters: " \o finish_reason]
          [] finish_reason = "STOP" ->
                CASE candidate.where = "content" ->
                        [text |-> strip(candidate.text), msg |-> None]
                  [] candidate.where = "parts" ->
                        [text |-> strip(candidate.text), msg |-> None]
                  [] candidate.where = "content_no_text" ->
                        [text |-> <<>>, msg |-> "No text in response content"]
                  [] candidate.where = "parts_no_text" ->
                        [text |-> <<>>, msg |-> "No text in response parts"]
                  [] OTHER ->
                        [text |-> <<>>,
                         msg |-> "No text found (finish reason: " \o finish_reason \o ")"]
          [] OTHER ->
                [text |-> <<>>, msg |-> "Unexpected finish reason: " \o finish_reason]

\* test-models.py test_model: the except clauses do not cover the HTTPError
\* handler's own e.read().decode('utf-8').
test_model(model_name, r) ==
    CASE r.kind = "Json" ->
            IF r.hasCandidates /\ Len(r.candidates) > 0
            THEN Return(Success(candidate_output(r.candidates[1])))
            ELSE Return(Failure("No candidates in response"))
      [] r.kind = "HTTPError" ->
            IF r.utf8
            THEN Return(Failure("HTTP " \o ToString(r.code) \o ": " \o r.body \o "..."))
            ELSE Raise("UnicodeDecodeError")
      [] OTHER -> Return(Failure(r.msg))

\* test-models.py test_model_parallel_wrapper: (model, result), or the
\* exception test_model raised.
test_model_parallel_wrapper(model, r) ==
    LET result == test_model(model, r)
    IN  IF result.raised THEN result ELSE Return(<<model, result.value>>)

\* test-gemini-models.py test_model: the text it returns.  Its HTTPError
\* handler decodes the error body outside the try block as well.
gm_test_model(model_name, r) ==
    CASE r.kind = "Json" ->
            IF r.hasCandidates /\ Len(r.candidates) > 0
            THEN Return([what |-> "content", model |-> model_name,
                         output |-> candidate_output(r.candidates[1]),
                         detail |-> None])
            ELSE Return([what |-> "No content generated by", model |-> model_name,
                         output |-> NoOutput, detail |-> None])
      [] r.kind = "HTTPError" ->
            IF r.utf8
            THEN Return([what |-> "API error for", model |-> model_name,
                         output |-> NoOutput, detail |-> r.body \o "..."])
            ELSE Raise("UnicodeDecodeError")
      [] OTHER -> Return([what |-> "Error for", model |-> model_name,
                          output |-> NoOutput, detail |-> r.msg \o "..."])

\* test-gemini-models.py test_model_parallel
test_model_parallel(model, r) ==
    LET result == gm_test_model(model, r)
    IN  IF result.raised THEN result ELSE Return(<<model, result.value>>)

-----------------------------------------------------------------------------
(* The probe runner.                                                       *)

Tasks == 1 .. Len(models)

NoFuture == [state |-> "unsubmitted", holds |-> Raise(None)]

InFlight == {t \in Tasks : fut[t].state = "running"}
Queued   == {t \in Tasks : fut[t].state = "queued"}
Finished == {t \in Tasks : fut[t].state = "finished"}

\* What the worker's callable does with the HTTP outcome r of task t.
Probe(t, r) ==
    IF script = "test-models"
    THEN test_model_parallel_wrapper(models[t], r)
    ELSE test_model_parallel(models[t], r)

\* A dict assignment that keeps the entry of a key that is already there.
DictKeepFirst(d, key, value) ==
    IF \E i \in 1 .. Len(d) : d[i][1] = key
    THEN d
    ELSE Append(d, <<key, value>>)

\* results[model] = result (a dict: the entry of an existing key is replaced).
DictPut(d, key, value) ==
    IF \E i \in 1 .. Len(d) : d[i][1] = key
    THEN [i \in 1 .. Len(d) |-> IF d[i][1] = key THEN <<key, value>> ELSE d[i]]
    ELSE Append(d, <<key, value>>)

\* A collecting loop that pairs the results with the models in
\* submission order.
CollectedInSubmissionOrder(pair) ==
    IF script = "test-models"
    THEN Append(results, <<models[Len(results) + 1], pair[2]>>)
    ELSE DictPut(results, models[Len(results) + 1], pair[2])

\* What the collecting loop does with the pair a future returned.
Collected(pair) ==
    IF script = "test-models"
    THEN Append(results, pair)
    ELSE DictPut(results, pair[1], pair[2])

\* run_test: the branch on parallel and len(models).
RunTest ==
    /\ pc = "start"
    /\ pc' = IF parallel /\ Len(models) > 1 THEN "submit" ELSE "sequential"
    /\ UNCHANGED <<proc, keyVars, envVars, script, models, parallel, fut, resp, pre, finished_futures,
                   results, pending, completion, printed, saved>>

\* executor.submit(...) of the next model of the list.
Submit ==
    /\ pc = "submit"
    /\ LET t == Cardinality({u \in Tasks : fut[u].state # "unsubmitted"}) + 1
       IN  /\ fut' = [fut EXCEPT ![t].state = "queued"]
           /\ pc' = IF t = Len(models) THEN "as_completed" ELSE "submit"
    /\ UNCHANGED <<proc, keyVars, envVars, script, models, parallel, resp, pre, finished_futures,
                   results, pending, completion, printed, saved>>

\* A pool that starts a thread for every work item.
WorkerStartUnbounded(t) ==
    /\ fut[t].state = "queued"
    /\ \A u \in Queued : t <= u
    /\ fut' = [fut EXCEPT ![t].state = "running"]
    /\ UNCHANGED <<proc, keyVars, envVars, script, models, parallel, pc, resp, pre, finished_futures,
                   results, pending, completion, printed, saved>>

\* A worker thread of the pool takes the oldest work item of the queue.
WorkerStart(t) ==
    /\ fut[t].state = "queued"
    /\ \A u \in Queued : t <= u
    /\ Cardinality(InFlight) < max_workers
    /\ fut' = [fut EXCEPT ![t].state = "running"]
    /\ UNCHANGED <<proc, keyVars, envVars, script, models, parallel, pc, resp, pre, finished_futures,
                   results, pending, completion, printed, saved>>

\* The HTTP call of task t ends with outcome r; the future is set, and an
\* installed as_completed waiter is told.
WorkerFinish(t, r) ==
    /\ fut[t].state = "running"
    /\ resp' = [resp EXCEPT ![t] = r]
    /\ fut' = [fut EXCEPT ![t] = [state |-> "finished", holds |-> Probe(t, r)]]
    /\ completion' = Append(completion, t)
    /\ finished_futures' =
            IF pc = "collect" THEN Append(finished_futures, t) ELSE finished_futures
    /\ UNCHANGED <<proc, keyVars, envVars, script, models, parallel, pc, pre, results, pending,
                   printed, saved>>

\* as_completed(future_to_model): the futures already finished are set
\* aside to be yielded first, a waiter is installed on the others.
AsCompleted ==
    /\ pc = "as_completed"
    /\ pre' = Finished
    /\ pending' = Tasks \ Finished
    /\ pc' = "collect"
    /\ UNCHANGED <<proc, keyVars, envVars, script, models, parallel, fut, resp, finished_futures,
                   results, completion, printed, saved>>

\* One iteration of "for future in as_completed(...)" on future t.
Iterate(t) ==
    /\ completion' = SelectSeq(completion, LAMBDA u : u # t)
    /\ IF fut[t].holds.raised
       THEN /\ pc' = "unwind"
            /\ UNCHANGED results
       ELSE /\ results' = Collected(fut[t].holds.value)
            /\ pc' = "collect"

\* An as_completed that yields the newest finished future first.
newest_finished(q) == q[Len(q)]

\* as_completed yields the futures its waiter was told of oldest first.
next_finished(q) == Head(q)

\* The next future as_completed yields: one finished before the call (a
\* set: in any order), else the oldest the waiter was told of.
Collect ==
    /\ pc = "collect"
    /\ IF pre # {}
       THEN \E t \in pre :
                /\ pre' = pre \ {t}
                /\ Iterate(t)
                /\ UNCHANGED <<pending, finished_futures>>
       ELSE /\ finished_futures # <<>>
            /\ LET t == next_finished(finished_futures)
               IN  /\ finished_futures' = SelectSeq(finished_futures, LAMBDA u : u # t)
                   /\ pending' = pending \ {t}
                   /\ Iterate(t)
            /\ UNCHANGED pre
    /\ UNCHANGED <<proc, keyVars, envVars, script, models, parallel, fut, resp, printed, saved>>

\* A loop that is left before every future has been yielded, out of a with
\* block that does not wait.
LoopEndEarly ==
    /\ pc = "collect"
    /\ pc' = "report"
    /\ UNCHANGED <<proc, keyVars, envVars, script, models, parallel, fut, resp, pre, finished_futures,
                   results, pending, completion, printed, saved>>

\* The loop ends when every future has been yielded; leaving the with block
\* is executor.shutdown(wait=True).
LoopEnd ==
    /\ pc = "collect"
    /\ pre = {}
    /\ pending = {}
    /\ pc' = "report"
    /\ UNCHANGED <<proc, keyVars, envVars, script, models, parallel, fut, resp, pre, finished_futures,
                   results, pending, completion, printed, saved>>

\* An exception leaves the with block: shutdown(wait=True) waits for every
\* submitted task, cancelling none, and the exception goes on to the caller.
Unwind ==
    /\ pc = "unwind"
    /\ Finished = Tasks
    /\ pc' = "raised"
    /\ UNCHANGED <<proc, keyVars, envVars, script, models, parallel, fut, resp, pre, finished_futures,
                   results, pending, completion, printed, saved>>

\* run_test, parallel: one iteration of the loop that prints and saves.
\* main of test-gemini-models.py: the display loop, then the one file.
Report ==
    /\ pc = "report"
    /\ IF script = "test-models"
       THEN IF Len(printed) < Len(results)
            THEN /\ printed' = Append(printed, results[Len(printed) + 1])
                 /\ saved' = Append(saved, results[Len(printed) + 1])
                 /\ pc' = "report"
            ELSE /\ pc' = "returned"
                 /\ UNCHANGED <<printed, saved>>
       ELSE /\ printed' = results
            /\ saved' = results
            /\ pc' = "returned"
    /\ UNCHANGED <<proc, keyVars, envVars, script, models, parallel, fut, resp, pre, finished_futures,
                   results, pending, completion>>

\* run_test, sequential: one iteration (probe, append, print, save), or
\* the return after the last.
Sequential(r) ==
    /\ pc = "sequential"
    /\ LET i == Len(results) + 1
       IN  IF i <= Len(models)
           THEN LET result == test_model(models[i], r)
                IN  /\ resp' = [resp EXCEPT ![i] = r]
                    /\ IF result.raised
                       THEN /\ pc' = "raised"
                            /\ UNCHANGED <<results, printed, saved>>
                       ELSE /\ results' = Append(results, <<models[i], result.value>>)
                            /\ printed' = Append(printed, <<models[i], result.value>>)
                            /\ saved' = Append(saved, <<models[i], result.value>>)
                            /\ pc' = "sequential"
           ELSE /\ pc' = "returned"
                /\ UNCHANGED <<resp, results, printed, saved>>
    /\ UNCHANGED <<proc, keyVars, envVars, script, models, parallel, fut, pre, finished_futures, pending,
                   completion>>

Range(f) == {f[i] : i \in DOMAIN f}

\* A list of n models as select_models builds it from the numbers typed:
\* MODELS in turn, so that a list longer than MODELS names a model twice.
ModelList(n) == [i \in 1 .. n |-> MODELS[((i - 1) % Len(MODELS)) + 1]]

\* The .env file does not exist.
NoFile == [exists |-> FALSE, content |-> <<>>]

IdlePool ==
    /\ script = None
    /\ models = <<>>
    /\ parallel = FALSE
    /\ pc = "idle"
    /\ fut = <<>>
    /\ resp = <<>>
    /\ pre = {}
    /\ finished_futures = <<>>
    /\ results = <<>>
    /\ pending = {}
    /\ completion = <<>>
    /\ printed = <<>>
    /\ saved = <<>>

IdleKeys ==
    /\ kscript = None
    /\ kpc = "idle"
    /\ kkeys = {}
    /\ klog = <<>>

IdleEnv ==
    /\ file = NoFile
    /\ environ = <<>>
    /\ env_vars = <<>>
    /\ written = [saved |-> FALSE, map |-> <<>>]
    /\ eop = [script |-> None, op |-> "idle", i |-> 0,
              ret |-> [type |-> "NoneType", truth |-> FALSE], typed |-> NothingTyped]

\* A process of which only a part is looked at: no flags, nothing printed.
NotCounted == [reported |-> FALSE, n |-> 0]

IdleProc ==
    proc = [args |-> {}, menu |-> FALSE, diag |-> {}, count |-> NotCounted,
            exited |-> FALSE, status |-> 0]

InitBatch(s, ms, par) ==
    /\ IdleKeys
    /\ IdleEnv
    /\ IdleProc
    /\ script = s
    /\ models = ms
    /\ parallel = par
    /\ pc = "start"
    /\ fut = [t \in 1 .. Len(ms) |-> NoFuture]
    /\ resp = [t \in 1 .. Len(ms) |-> NoCall]
    /\ pre = {}
    /\ finished_futures = <<>>
    /\ results = <<>>
    /\ pending = {}
    /\ completion = <<>>
    /\ printed = <<>>
    /\ saved = <<>>

\* run_test on a list select_models or main can pass, or main of
\* test-gemini-models.py on its three models.
Init ==
    \/ \E n \in 1 .. MaxTasks, par \in BOOLEAN :
            InitBatch("test-models", ModelList(n), par)
    \/ InitBatch("test-gemini-models", GM_MODELS, TRUE)

Next ==
    \/ RunTest
    \/ Submit
    \/ \E t \in Tasks : WorkerStart(t)
    \/ \E t \in Tasks, r \in BatchResponses : WorkerFinish(t, r)
    \/ AsCompleted
    \/ Collect
    \/ LoopEnd
    \/ Unwind
    \/ Report
    \/ \E r \in BatchResponses : Sequential(r)

Spec == Init /\ [][Next]_vars

\* The batches larger than the pool: run_test on a list of more than
\* max_workers models, every probe of which succeeds.
InitCap ==
    \E n \in max_workers + 1 .. max_workers + MaxExtra :
        InitBatch("test-models", ModelList(n), TRUE)

NextCap ==
    \/ RunTest
    \/ Submit
    \/ \E t \in Tasks : WorkerStart(t)
    \/ \E t \in Tasks : WorkerFinish(t, GoodJson)
    \/ AsCompleted
    \/ Collect
    \/ LoopEnd
    \/ Report

SpecCap == InitCap /\ [][NextCap]_vars

\* The responses with candidates: every finish reason (None: missing),
\* every place of the text part, alone or followed by a second candidate.
FinishReasons == {None, "STOP", "MAX_TOKENS", "SAFETY", "RECITATION"}

TextPlaces == {"content", "parts", "content_no_text", "parts_no_text", "none"}

CandidateTexts == { <<" ", "o", "k">>, <<"h", "i", "\n">> }

SecondCandidate == Candidate("STOP", "content", <<"z", "z">>)

CandidateResponses ==
    LET firsts == {Candidate(f, w, t) : f \in FinishReasons, w \in TextPlaces,
                                        t \in CandidateTexts}
    IN  {Json(TRUE, <<c>>, FALSE) : c \in firsts}
            \cup {Json(TRUE, <<c, SecondCandidate>>, FALSE) : c \in firsts}

\* run_test on one or two models, one after the other, every probe of
\* which is answered with candidates.
InitCandidates ==
    \E n \in 1 .. 2 : InitBatch("test-models", ModelList(n), FALSE)

NextCandidates ==
    \/ RunTest
    \/ \E r \in CandidateResponses : Sequential(r)

SpecCandidates == InitCandidates /\ [][NextCandidates]_vars

-----------------------------------------------------------------------------
(* The key-checking scripts and their probe primitives.                    *)

KEY_NAMES == <<"GEMINI_KEY", "GEMINI_KEY_SECONDARY", "GEMINI_KEY_FALLBACK">>

\* models of test_different_models, debug-gemini.py
DEBUG_MODELS == <<"gemini-2.5-pro", "gemini-2.5-flash">>

PartsJson == Json(TRUE, <<Candidate("STOP", "parts", <<"o", "k", " ">>)>>, FALSE)
EmptyJson == Json(TRUE, <<>>, FALSE)

\* The HTTP outcomes the key-checking specifications draw from.
KeyResponses ==
    { GoodJson, PartsJson, EmptyJson, NoCandJson, NotJson, TimedOut, Refused,
      HttpError(400, TRUE, "{}"), HttpError(403, TRUE, "{}"),
      HttpError(404, TRUE, "{}"), HttpError(429, TRUE, "{}"),
      HttpError(500, FALSE, "") }

\* A test_key without its "except Exception" clause.
test_key_uncaught(r) ==
    CASE r.kind = "Json" ->
            IF r.hasCandidates THEN Return("valid") ELSE Return("ERR no response")
      [] r.kind = "HTTPError" ->
            IF r.code = 429 THEN Return("valid but rate limited")
            ELSE IF r.code = 403 \/ r.code = 400 THEN Return("ERR invalid key")
            ELSE Return("ERR " \o ToString(r.code))
      [] OTHER -> Raise(r.kind)

\* A test_key whose HTTPError handler has no branch for 429.
test_key_no_rate_limit(r) ==
    CASE r.kind = "Json" ->
            IF r.hasCandidates THEN Return("valid") ELSE Return("ERR no response")
      [] r.kind = "HTTPError" ->
            IF r.code = 403 \/ r.code = 400 THEN Return("ERR invalid key")
            ELSE Return("ERR " \o ToString(r.code))
      [] OTHER -> Return("ERR connection failed")

\* test-gemini-key.py test_key
test_key(r) ==
    CASE r.kind = "Json" ->
            IF r.hasCandidates THEN Return("valid") ELSE Return("ERR no response")
      [] r.kind = "HTTPError" ->
            IF r.code = 429 THEN Return("valid but rate limited")
            ELSE IF r.code = 403 \/ r.code = 400 THEN Return("ERR invalid key")
            ELSE Return("ERR " \o ToString(r.code))
      [] OTHER -> Return("ERR connection failed")

\* The (is_valid, message) of test_api_key; text: the stripped response
\* text when the message is that text.
KeyStatus(is_valid, message, text) ==
    [is_valid |-> is_valid, message |-> message, text |-> text]

\* gemini-key-helper.py test_api_key: result['candidates'][0]['parts'][0]['text']
\* raises KeyError inside the try block unless the candidate has its text
\* under 'parts'.
test_api_key(r) ==
    CASE r.kind = "Json" ->
            IF r.hasCandidates /\ Len(r.candidates) > 0
            THEN IF r.candidates[1].where = "parts"
                 THEN Return(KeyStatus(TRUE, "response_text", strip(r.candidates[1].text)))
                 ELSE Return(KeyStatus(FALSE, "Connection error: KeyError...", <<>>))
            ELSE Return(KeyStatus(FALSE, "No response generated", <<>>))
      [] r.kind = "HTTPError" ->
            IF r.code = 400 THEN Return(KeyStatus(FALSE, "Invalid API key format", <<>>))
            ELSE IF r.code = 403
                 THEN Return(KeyStatus(FALSE, "API key denied - check permissions", <<>>))
            ELSE IF r.code = 429
                 THEN Return(KeyStatus(FALSE, "Rate limited - key might be valid", <<>>))
            ELSE Return(KeyStatus(FALSE, "HTTP " \o ToString(r.code) \o " error", <<>>))
      [] OTHER -> Return(KeyStatus(FALSE, "Connection error: " \o r.msg \o "...", <<>>))

\* debug-gemini.py test_gemini_detailed: True or False; its HTTPError
\* handler decodes the error body outside any try block.
test_gemini_detailed(r) ==
    CASE r.kind = "Json" ->
            IF r.hasCandidates /\ Len(r.candidates) > 0
            THEN Return(r.candidates[1].where = "parts")
            ELSE Return(TRUE)
      [] r.kind = "HTTPError" ->
            IF r.utf8 THEN Return(FALSE) ELSE Raise("UnicodeDecodeError")
      [] OTHER -> Return(FALSE)

\* debug-gemini.py test_different_models: whether the model is counted as
\* working.
model_works(r) ==
    Return(r.kind = "Json" /\ r.hasCandidates /\ Len(r.candidates) > 0)

ProbeRecord(name, prim, r, ret) ==
    [name |-> name, prim |-> prim, r |-> r, ret |-> ret]

\* main of test-gemini-key.py, the summary: the count of the working keys,
\* printed when there is one.
valid_count(statuses) ==
    LET n == Cardinality({i \in 1 .. Len(statuses) :
                 statuses[i].ret.value \in {"valid", "valid but rate limited"}})
    IN  [reported |-> n > 0, n |-> n]

\* main of test-gemini-key.py: one iteration of the loop over the keys,
\* then the summary.
TestKeys(r) ==
    /\ kscript = "test-gemini-key"
    /\ kpc = "keys"
    /\ IF Len(klog) < Len(KEY_NAMES)
       THEN LET env_var == KEY_NAMES[Len(klog) + 1]
            IN  /\ klog' = Append(klog,
                        IF env_var \in kkeys
                        THEN ProbeRecord(env_var, "test_key", r, test_key(r))
                        ELSE ProbeRecord(env_var, None, NoCall, Return("ERR not found")))
                /\ kpc' = "keys"
                /\ UNCHANGED proc
       ELSE /\ kpc' = "done"
            /\ proc' = [proc EXCEPT !.count = valid_count(klog)]
            /\ UNCHANGED klog
    /\ UNCHANGED <<poolVars, envVars, kscript, kkeys>>

\* validate_existing_keys of gemini-key-helper.py: one iteration.
ValidateExistingKeys(r) ==
    /\ kscript = "gemini-key-helper"
    /\ kpc = "keys"
    /\ IF Len(klog) < Len(KEY_NAMES)
       THEN LET key_name == KEY_NAMES[Len(klog) + 1]
            IN  /\ klog' = Append(klog,
                        IF key_name \in kkeys
                        THEN ProbeRecord(key_name, "test_api_key", r, test_api_key(r))
                        ELSE ProbeRecord(key_name, None, NoCall, Return("Not set")))
                /\ kpc' = "keys"
       ELSE /\ kpc' = "done"
            /\ UNCHANGED klog
    /\ UNCHANGED <<proc, poolVars, envVars, kscript, kkeys>>

\* main of debug-gemini.py up to the end of test_gemini_detailed.
DebugMain(r) ==
    /\ kscript = "debug-gemini"
    /\ kpc = "keys"
    /\ IF "GEMINI_KEY" \notin kkeys
       THEN /\ kpc' = "done"
            /\ proc' = [proc EXCEPT !.diag = {"GEMINI_KEY not found in .env file"}]
            /\ UNCHANGED klog
       ELSE LET success == test_gemini_detailed(r)
            IN  /\ klog' = Append(klog,
                        ProbeRecord("gemini-2.5-flash", "test_gemini_detailed", r, success))
                /\ kpc' = IF success.raised THEN "raised"
                          ELSE IF success.value THEN "done"
                          ELSE "models"
                /\ UNCHANGED proc
    /\ UNCHANGED <<poolVars, envVars, kscript, kkeys>>

\* test_different_models of debug-gemini.py: one iteration, then the list.
TestDifferentModels(r) ==
    /\ kscript = "debug-gemini"
    /\ kpc = "models"
    /\ IF Len(klog) <= Len(DEBUG_MODELS)
       THEN /\ klog' = Append(klog,
                    ProbeRecord(DEBUG_MODELS[Len(klog)], "test_different_models",
                                r, model_works(r)))
            /\ kpc' = "models"
       ELSE /\ kpc' = "done"
            /\ UNCHANGED klog
    /\ UNCHANGED <<proc, poolVars, envVars, kscript, kkeys>>

InitKeys ==
    /\ IdlePool
    /\ IdleEnv
    /\ IdleProc
    /\ kscript \in {"test-gemini-key", "gemini-key-helper", "debug-gemini"}
    /\ kkeys \in SUBSET Range(KEY_NAMES)
    /\ kpc = "keys"
    /\ klog = <<>>

NextKeys ==
    \/ \E r \in KeyResponses : TestKeys(r)
    \/ \E r \in KeyResponses : ValidateExistingKeys(r)
    \/ \E r \in KeyResponses : DebugMain(r)
    \/ \E r \in KeyResponses : TestDifferentModels(r)

SpecKeys == InitKeys /\ [][NextKeys]_vars

\* Every script that probes: the batches and the key checkers.
SpecProbes == (Init \/ InitKeys) /\ [][Next \/ NextKeys]_vars

-----------------------------------------------------------------------------
(* The .env loaders and writers.                                           *)

GEMINI_KEY   == <<"G", "E", "M", "I", "N", "I", "_", "K", "E", "Y">>
GEMINI_MODEL == <<"G", "E", "M", "I", "N", "I", "_", "M", "O", "D", "E", "L">>

Contains(s, c) == \E i \in 1 .. Len(s) : s[i] = c

\* The index of the first c in s; 0 when there is none.
Find(s, c) ==
    IF Contains(s, c)
    THEN CHOOSE i \in 1 .. Len(s) : s[i] = c /\ \A j \in 1 .. i - 1 : s[j] # c
    ELSE 0

\* s.startswith(c)
startswith(s, c) == s # <<>> /\ s[1] = c

\* s.partition(sep): (before, sep, after), or (s, '', '') without a sep.
partition(s, sep) ==
    LET i == Find(s, sep)
    IN  IF i = 0 THEN <<s, <<>>, <<>>>>
        ELSE <<SubSeq(s, 1, i - 1), <<sep>>, SubSeq(s, i + 1, Len(s))>>

RECURSIVE split(_, _)
\* s.split(sep)
split(s, sep) ==
    LET i == Find(s, sep)
    IN  IF i = 0 THEN <<s>>
        ELSE <<SubSeq(s, 1, i - 1)>> \o split(SubSeq(s, i + 1, Len(s)), sep)

RECURSIVE readlines(_)
\* "for line in f": the lines of the text, each with its line break.
readlines(content) ==
    LET i == Find(content, "\n")
    IN  IF content = <<>> THEN <<>>
        ELSE IF i = 0 THEN <<content>>
        ELSE <<SubSeq(content, 1, i)>> \o readlines(SubSeq(content, i + 1, Len(content)))

RECURSIVE join(_)
\* ''.join(parts)
join(parts) == IF parts = <<>> THEN <<>> ELSE Head(parts) \o join(Tail(parts))

\* What a load_env did: the dict it built, os.environ afterwards, and whether
\* it raised.
\* What a call returned: its type and its truth value (a dict is true when
\* it is not empty); the dict itself is env_vars.
ReturnsNone    == [type |-> "NoneType", truth |-> FALSE]
ReturnsBool(b) == [type |-> "bool", truth |-> b]
ReturnsDict(d) == [type |-> "dict", truth |-> d # <<>>]

Loaded(d, env)  ==
    [raised |-> FALSE, env_vars |-> d, environ |-> env, returns |-> ReturnsDict(d)]
LoadRaised(env) ==
    [raised |-> TRUE, env_vars |-> <<>>, environ |-> env, returns |-> ReturnsNone]

\* The lines all the loaders skip: comments, blank lines.
skipped(line) == startswith(line, "#") \/ line = <<>>

\* A value from which the whitespace is not stripped.
unstripped_value(line) == strip_quotes(partition(line, "=")[3])

\* The value the single-line loaders take from a stripped line: the quotes
\* are stripped first, the whitespace after.
line_value(line) == strip(strip_quotes(partition(line, "=")[3]))

line_key(line) == strip(partition(line, "=")[1])

RECURSIVE tm_load_lines(_, _, _)
\* test-models.py load_env: the loop over the lines.  os.environ refuses an
\* empty name.
tm_load_lines(lines, d, env) ==
    IF lines = <<>> THEN Loaded(d, env)
    ELSE LET line == strip(Head(lines))
         IN  IF skipped(line) \/ ~Contains(line, "=")
             THEN tm_load_lines(Tail(lines), d, env)
             ELSE IF line_key(line) = <<>>
                  THEN LoadRaised(env)
                  ELSE tm_load_lines(Tail(lines),
                                     DictPut(d, line_key(line), line_value(line)),
                                     DictPut(env, line_key(line), line_value(line)))

\* test-models.py load_env
tm_load_env(f, env) ==
    IF f.exists THEN tm_load_lines(readlines(f.content), <<>>, env)
    ELSE Loaded(<<>>, env)

RECURSIVE gm_load_lines(_, _)
\* test-gemini-models.py load_env: os.environ only.
gm_load_lines(lines, env) ==
    IF lines = <<>> THEN Loaded(<<>>, env)
    ELSE LET line == strip(Head(lines))
         IN  IF skipped(line) \/ ~Contains(line, "=")
             THEN gm_load_lines(Tail(lines), env)
             ELSE IF line_key(line) = <<>>
                  THEN LoadRaised(env)
                  ELSE gm_load_lines(Tail(lines),
                                     DictPut(env, line_key(line), line_value(line)))

\* test-gemini-models.py load_env
gm_load_env(f, env) ==
    [(IF f.exists THEN gm_load_lines(readlines(f.content), env) ELSE Loaded(<<>>, env))
        EXCEPT !.returns = ReturnsNone]

RECURSIVE dict_load_lines(_, _)
\* debug-gemini.py and gemini-key-helper.py load_env: the dict only.
dict_load_lines(lines, d) ==
    IF lines = <<>> THEN d
    ELSE LET line == strip(Head(lines))
         IN  IF skipped(line) \/ ~Contains(line, "=")
             THEN dict_load_lines(Tail(lines), d)
             ELSE dict_load_lines(Tail(lines),
                                  DictPut(d, line_key(line), line_value(line)))

\* A loader that opens the file without asking whether it exists.
debug_load_env_unchecked(f, env) ==
    IF f.exists THEN Loaded(dict_load_lines(readlines(f.content), <<>>), env)
    ELSE LoadRaised(env)

\* debug-gemini.py load_env
debug_load_env(f, env) ==
    IF f.exists THEN Loaded(dict_load_lines(readlines(f.content), <<>>), env)
    ELSE Loaded(<<>>, env)

\* gemini-key-helper.py load_env
helper_load_env(f, env) ==
    IF f.exists THEN Loaded(dict_load_lines(readlines(f.content), <<>>), env)
    ELSE Loaded(<<>>, env)

\* A flush that joins the pieces with a space between them.
flush_spaced(current_key, current_value, env) ==
    IF current_key # <<>>
    THEN DictPut(env, current_key,
                 strip_quotes(join([i \in 1 .. Len(current_value) |->
                     IF i = 1 THEN current_value[i] ELSE <<" ">> \o current_value[i]])))
    ELSE env

\* test-gemini-key.py load_env: "if current_key:" stores the pending entry
\* (None and '' are both false).
flush(current_key, current_value, env) ==
    IF current_key # <<>>
    THEN DictPut(env, current_key, strip_quotes(join(current_value)))
    ELSE env

RECURSIVE tgk_load_lines(_, _, _, _)
\* test-gemini-key.py load_env: the loop over the lines and the last flush.
tgk_load_lines(lines, current_key, current_value, env) ==
    IF lines = <<>> THEN flush(current_key, current_value, env)
    ELSE LET line == strip(Head(lines))
         IN  IF skipped(line)
             THEN tgk_load_lines(Tail(lines), current_key, current_value, env)
             ELSE IF Contains(line, "=")
                  THEN tgk_load_lines(Tail(lines), line_key(line),
                                      <<unstripped_value(line)>>,
                                      flush(current_key, current_value, env))
                  ELSE IF current_key # <<>>
                       THEN tgk_load_lines(Tail(lines), current_key,
                                           Append(current_value, strip_quotes(line)), env)
                       ELSE tgk_load_lines(Tail(lines), current_key, current_value, env)

\* test-gemini-key.py load_env: it builds no dict and writes os.environ.
tgk_load_env(f, env) ==
    IF f.exists
    THEN [Loaded(<<>>, tgk_load_lines(split(f.content, "\n"), <<>>, <<>>, env))
            EXCEPT !.returns = ReturnsBool(TRUE)]
    ELSE [Loaded(<<>>, env) EXCEPT !.returns = ReturnsBool(FALSE)]

RECURSIVE write_items(_)
\* f.write(f"{key}={value}\n") for every item of the dict.
write_items(d) ==
    IF d = <<>> THEN <<>>
    ELSE Head(d)[1] \o <<"=">> \o Head(d)[2] \o <<"\n">> \o write_items(Tail(d))

\* test-models.py save_env
tm_save_env(d) == [exists |-> TRUE, content |-> write_items(d)]

HelperHeader ==
    <<"#", " ", "G", "e", "m", "i", "n", "i", " ", "A", "P", "I", " ",
      "K", "e", "y", "s", "\n">>

\* gemini-key-helper.py save_env
helper_save_env(d) == [exists |-> TRUE, content |-> HelperHeader \o write_items(d)]

LoaderScripts ==
    {"test-models", "test-gemini-models", "debug-gemini", "gemini-key-helper",
     "test-gemini-key"}

\* The load_env of each script.
load_env(s, f, env) ==
    CASE s = "test-models"        -> tm_load_env(f, env)
      [] s = "test-gemini-models" -> gm_load_env(f, env)
      [] s = "debug-gemini"       -> debug_load_env(f, env)
      [] s = "gemini-key-helper"  -> helper_load_env(f, env)
      [] OTHER                    -> tgk_load_env(f, env)

\* The names and the model names as the text the .env file holds.
KeyText(name) ==
    CASE name = "GEMINI_KEY" -> GEMINI_KEY
      [] name = "GEMINI_KEY_SECONDARY" ->
            GEMINI_KEY \o <<"_", "S", "E", "C", "O", "N", "D", "A", "R", "Y">>
      [] name = "GEMINI_KEY_FALLBACK" ->
            GEMINI_KEY \o <<"_", "F", "A", "L", "L", "B", "A", "C", "K">>

ModelText(name) ==
    CASE name = "gemini-2.5-pro" ->
            <<"g", "e", "m", "i", "n", "i", "-", "2", ".", "5", "-", "p", "r", "o">>
      [] name = "gemini-2.5-flash" ->
            <<"g", "e", "m", "i", "n", "i", "-", "2", ".", "5", "-", "f", "l", "a", "s", "h">>

\* The lines the .env files of the model are made of.
LinePool ==
    { <<"K", "=", "a", "b">>,
      <<" ", "K", " ", "=", " ", "'", "b", "'", " ">>,
      <<"c", "d">>,
      <<"\"", "e", "\"">>,
      <<>>,
      <<"#", " ", "K", "=", "z">>,
      <<"J", "=", "\"", "x", "=", "y", "\"">>,
      <<"=", "v">> }

\* The example of the specification, without a final line break.
ExampleFile ==
    [exists |-> TRUE,
     content |-> GEMINI_KEY \o <<"=", "\"">>
                 \o <<"A", "I", "z", "a", "T", "e", "s", "t">>
                 \o <<"1", "2", "3", "4", "5", "6", "7", "8", "9", "0">>
                 \o <<"\"">>]

\* A text file of the given lines, each ended by a line break.
FileOf(ls) ==
    [exists |-> TRUE,
     content |-> join([i \in 1 .. Len(ls) |-> ls[i] \o <<"\n">>])]

\* A .env file with an entry that continues over several lines.
MultiLineFile ==
    FileOf(<< <<"K", "=", "\"", "a", "b">>,
              <<>>,
              <<"#", " ", "c">>,
              <<" ", "c", " ", "d", "\"">>,
              <<"J", "=", "x">> >>)

EnvFiles ==
    {NoFile, ExampleFile, MultiLineFile}
        \cup {FileOf(ls) : ls \in UNION {[1 .. n -> LinePool] : n \in 0 .. MaxLines}}

\* What the user types for a key: nothing, a key, or a key pasted with its
\* quotes (input().strip() has no surrounding whitespace).
NewKeys ==
    { <<>>,
      <<"A", "I", "z", "a", "1">>,
      <<"\"", "A", "I", "z", "a", "1", "\"">> }

\* os.environ with GEMINI_KEY exported by the shell.
Exported == << <<GEMINI_KEY, <<"A", "I", "z", "a", "1">>>> >>

NotWritten == [saved |-> FALSE, map |-> <<>>]

\* name in d.
HasEntry(d, key) == \E i \in 1 .. Len(d) : d[i][1] = key

\* os.getenv(name) and env_vars.get(name) where only the truth of the
\* result and its text matter: the empty text when the name is not set.
dict_get(d, key) ==
    IF HasEntry(d, key)
    THEN d[CHOOSE i \in 1 .. Len(d) : d[i][1] = key][2]
    ELSE <<>>

\* A call of the script's load_env: main of test-models.py, debug-gemini.py
\* and test-gemini-key.py, the import of test-gemini-models.py,
\* get_current_model, validate_existing_keys.
LoadEnv ==
    /\ eop.op \in {"start", "saved"}
    /\ LET res == load_env(eop.script, file, environ)
       IN  /\ environ' = res.environ
           /\ env_vars' = IF res.raised THEN env_vars ELSE res.env_vars
           /\ eop' = [eop EXCEPT !.op = IF res.raised THEN "raised" ELSE "loaded",
                                  !.ret = res.returns]
    /\ UNCHANGED <<file, written, poolVars, keyVars, proc>>

\* update_default_model of test-models.py with a valid selection: load_env,
\* the assignment of GEMINI_MODEL, save_env.
UpdateDefaultModel(idx) ==
    /\ eop.script = "test-models"
    /\ eop.op \in {"loaded", "saved"}
    /\ LET res == tm_load_env(file, environ)
           M   == DictPut(res.env_vars, GEMINI_MODEL, ModelText(MODELS[idx]))
       IN  /\ environ' = res.environ
           /\ IF res.raised
              THEN /\ eop' = [eop EXCEPT !.op = "raised", !.ret = res.returns]
                   /\ UNCHANGED <<file, env_vars, written>>
              ELSE /\ file' = tm_save_env(M)
                   /\ env_vars' = M
                   /\ written' = [saved |-> TRUE, map |-> M]
                   /\ eop' = [eop EXCEPT !.op = "saved", !.ret = res.returns]
    /\ UNCHANGED <<poolVars, keyVars, proc>>

\* interactive_key_setup of gemini-key-helper.py up to its first prompt:
\* load_env.
InteractiveKeySetup ==
    /\ eop.script = "gemini-key-helper"
    /\ eop.op \in {"start", "loaded", "saved"}
    /\ env_vars' = helper_load_env(file, environ).env_vars
    /\ eop' = [eop EXCEPT !.op = "setup", !.i = 1,
                           !.ret = helper_load_env(file, environ).returns,
                           !.typed = NothingTyped]
    /\ UNCHANGED <<file, environ, written, poolVars, keyVars, proc>>

\* A round that stores every key entered, valid or not.
EnterKeyUnconfirmed(update, new_key, r, anyway) ==
    /\ eop.op = "setup"
    /\ eop.i <= Len(KEY_NAMES)
    /\ LET key_name    == KeyText(KEY_NAMES[eop.i])
           current_key == dict_get(env_vars, key_name)
           asked       == current_key = <<>> \/ update
           entered     == asked /\ new_key # <<>>
           is_valid    == entered /\ test_api_key(r).value.is_valid
       IN  /\ update => current_key # <<>>
           /\ new_key # <<>> => asked
           /\ r # NoCall <=> entered
           /\ anyway => (entered /\ ~is_valid)
           /\ env_vars' = IF entered THEN DictPut(env_vars, key_name, new_key)
                          ELSE env_vars
           /\ eop' = [eop EXCEPT !.i = eop.i + 1,
                                  !.typed = [update |-> update, new_key |-> new_key,
                                             r |-> r, anyway |-> anyway, save |-> FALSE]]
    /\ UNCHANGED <<file, environ, written, poolVars, keyVars, proc>>

\* One round of the loop over the three names: the answer to "Update?"
\* (asked when the name has a key), the key typed, the outcome r of its
\* validation, the answer to "Save anyway?" (asked when it is invalid).
EnterKey(update, new_key, r, anyway) ==
    /\ eop.op = "setup"
    /\ eop.i <= Len(KEY_NAMES)
    /\ LET key_name    == KeyText(KEY_NAMES[eop.i])
           current_key == dict_get(env_vars, key_name)
           asked       == current_key = <<>> \/ update
           entered     == asked /\ new_key # <<>>
           is_valid    == entered /\ test_api_key(r).value.is_valid
       IN  /\ update => current_key # <<>>
           /\ new_key # <<>> => asked
           /\ r # NoCall <=> entered
           /\ anyway => (entered /\ ~is_valid)
           /\ env_vars' = IF entered /\ (is_valid \/ anyway)
                          THEN DictPut(env_vars, key_name, new_key)
                          ELSE env_vars
           /\ eop' = [eop EXCEPT !.i = eop.i + 1,
                                  !.typed = [update |-> update, new_key |-> new_key,
                                             r |-> r, anyway |-> anyway, save |-> FALSE]]
    /\ UNCHANGED <<file, environ, written, poolVars, keyVars, proc>>

\* The end of interactive_key_setup: save_env unless the user answers 'n'.
SaveChanges(save) ==
    /\ eop.op = "setup"
    /\ eop.i > Len(KEY_NAMES)
    /\ IF save
       THEN /\ file' = helper_save_env(env_vars)
            /\ written' = [saved |-> TRUE, map |-> env_vars]
            /\ eop' = [eop EXCEPT !.op = "saved", !.i = 0,
                                   !.typed = [NothingTyped EXCEPT !.save = TRUE]]
            /\ UNCHANGED env_vars
       ELSE /\ env_vars' = <<>>
            /\ eop' = [eop EXCEPT !.op = "start", !.i = 0, !.typed = NothingTyped]
            /\ UNCHANGED <<file, written>>
    /\ UNCHANGED <<environ, poolVars, keyVars, proc>>

\* The outcomes of the validation of a key typed in.
SetupResponses == {PartsJson, HttpError(403, TRUE, "{}")}

InitEnv ==
    /\ IdlePool
    /\ IdleKeys
    /\ IdleProc
    /\ file \in EnvFiles
    /\ environ \in (IF file.exists THEN {<<>>} ELSE {<<>>, Exported})
    /\ env_vars = <<>>
    /\ written = NotWritten
    /\ eop \in [script : LoaderScripts, op : {"start"}, i : {0}, ret : {ReturnsNone},
                 typed : {NothingTyped}]

NextEnv ==
    \/ LoadEnv
    \/ \E idx \in 1 .. Len(MODELS) : UpdateDefaultModel(idx)

SpecEnv == InitEnv /\ [][NextEnv]_vars

\* A .env file with two of the three keys, one of them quoted.
TwoKeysFile ==
    FileOf(<< GEMINI_KEY \o <<"=", "A", "I", "z", "a", "0">>,
              KeyText("GEMINI_KEY_FALLBACK") \o <<"=", "'", "o", "l", "d", "'">> >>)

SetupFiles == {NoFile, ExampleFile, TwoKeysFile, MultiLineFile}

\* gemini-key-helper.py started for its interactive setup.
InitSetup ==
    /\ IdlePool
    /\ IdleKeys
    /\ IdleProc
    /\ file \in SetupFiles
    /\ environ = <<>>
    /\ env_vars = <<>>
    /\ written = NotWritten
    /\ eop = [script |-> "gemini-key-helper", op |-> "start", i |-> 0, ret |-> ReturnsNone,
              typed |-> NothingTyped]

NextSetup ==
    \/ InteractiveKeySetup
    \/ \E update, anyway \in BOOLEAN, new_key \in NewKeys,
          r \in SetupResponses \cup {NoCall} : EnterKey(update, new_key, r, anyway)
    \/ \E save \in BOOLEAN : SaveChanges(save)

SpecSetup == InitSetup /\ [][NextSetup]_vars

-----------------------------------------------------------------------------
(* The scripts' main functions.                                            *)

\* The command-line flags of test-models.py.
Flags == {"interactive", "all", "parallel", "sequential"}

\* The key names that have a non-empty value.
keys_set(d) == {n \in Range(KEY_NAMES) : dict_get(d, KeyText(n)) # <<>>}

\* A call of run_test(models, api_key, parallel).
EnterRunTest(ms, par) ==
    /\ models' = ms
    /\ parallel' = par
    /\ pc' = "start"
    /\ fut' = [t \in 1 .. Len(ms) |-> NoFuture]
    /\ resp' = [t \in 1 .. Len(ms) |-> NoCall]
    /\ pre' = {}
    /\ finished_futures' = <<>>
    /\ results' = <<>>
    /\ pending' = {}
    /\ completion' = <<>>
    /\ printed' = <<>>
    /\ saved' = <<>>
    /\ UNCHANGED script

\* No call of run_test: the main thread moves on.
Goto(to) ==
    /\ pc' = to
    /\ UNCHANGED <<script, models, parallel, fut, resp, pre, finished_futures, results,
                   pending, completion, printed, saved>>

\* The step prints the diagnostics (none when the set is empty) and the
\* process goes on.
Diagnose(messages) == proc' = [proc EXCEPT !.diag = messages]

\* The step prints the diagnostics and the process ends with the status.
Exit(status, messages) ==
    /\ proc' = [proc EXCEPT !.exited = TRUE, !.status = status, !.diag = messages]
    /\ Goto("exited")

DefaultModel == "gemini-2.5-flash"

\* The model a text names; a text that names none of MODELS is a model of
\* its own.
model_name(text) ==
    IF \E m \in Range(MODELS) : ModelText(m) = text
    THEN CHOOSE m \in Range(MODELS) : ModelText(m) = text
    ELSE "unlisted model"

\* A main in which --parallel decides the mode of --all.
main_parallel_flag(args, env) ==
    CASE dict_get(env, GEMINI_KEY) = <<>> -> [mode |-> "exit"]
      [] "interactive" \in args -> [mode |-> "menu"]
      [] "all" \in args ->
            [mode |-> "run", models |-> MODELS, parallel |-> "parallel" \in args,
             warn |-> FALSE]
      [] OTHER ->
            [mode |-> "run",
             models |-> <<IF dict_get(env, GEMINI_MODEL) = <<>> THEN DefaultModel
                          ELSE model_name(dict_get(env, GEMINI_MODEL))>>,
             parallel |-> FALSE,
             warn |-> dict_get(env, GEMINI_MODEL) = <<>>]

\* main of test-models.py after load_env: what the flags and os.environ
\* select.
tm_main(args, env) ==
    CASE dict_get(env, GEMINI_KEY) = <<>> -> [mode |-> "exit"]
      [] "interactive" \in args -> [mode |-> "menu"]
      [] "all" \in args ->
            [mode |-> "run", models |-> MODELS, parallel |-> "sequential" \notin args,
             warn |-> FALSE]
      [] OTHER ->
            [mode |-> "run",
             models |-> <<IF dict_get(env, GEMINI_MODEL) = <<>> THEN DefaultModel
                          ELSE model_name(dict_get(env, GEMINI_MODEL))>>,
             parallel |-> FALSE,
             warn |-> dict_get(env, GEMINI_MODEL) = <<>>]

\* main of test-models.py up to the call it ends with.
TmMain ==
    /\ script = "test-models"
    /\ pc = "main"
    /\ LET res  == tm_load_env(file, environ)
           sel  == tm_main(proc.args, res.environ)
       IN  /\ environ' = res.environ
           /\ CASE res.raised -> Exit(1, {})
                [] sel.mode = "exit" -> Exit(1, {"GEMINI_KEY not found in .env file"})
                [] sel.mode = "menu" ->
                        /\ Goto("menu")
                        /\ proc' = [proc EXCEPT !.menu = TRUE]
                [] OTHER ->
                        /\ EnterRunTest(sel.models, sel.parallel)
                        /\ Diagnose(IF sel.warn THEN {"GEMINI_MODEL not set in .env"} ELSE {})
    /\ UNCHANGED <<file, env_vars, written, eop, keyVars>>

\* A return from run_test to the menu: its locals are gone, and what the
\* next batch prints and saves is counted from nothing again.
BackToMenu ==
    /\ pc' = "menu"
    /\ models' = <<>>
    /\ parallel' = FALSE
    /\ fut' = <<>>
    /\ resp' = <<>>
    /\ pre' = {}
    /\ finished_futures' = <<>>
    /\ results' = <<>>
    /\ pending' = {}
    /\ completion' = <<>>
    /\ printed' = <<>>
    /\ saved' = <<>>
    /\ UNCHANGED script

\* One round of interactive_menu of test-models.py: the choice typed, and
\* for choice 3 and 4 the selection typed after it (idx 0 is an input that
\* is not a number, idx n the n-th model, or for choice 4 the first n).
Menu(choice, idx) ==
    /\ script = "test-models"
    /\ pc = "menu"
    /\ LET res     == tm_load_env(file, environ)
           api_key == dict_get(environ, GEMINI_KEY)
       IN  CASE choice = "0" ->
                    /\ Exit(0, {})
                    /\ UNCHANGED <<file, environ, written>>
             [] choice = "1" ->
                    /\ environ' = res.environ
                    /\ UNCHANGED <<file, written>>
                    /\ CASE res.raised -> Exit(1, {})
                         [] ~HasEntry(res.env_vars, GEMINI_MODEL) ->
                                /\ Goto("menu")
                                /\ Diagnose({"No default model set. Use option [3] to set one."})
                         [] dict_get(res.environ, GEMINI_KEY) = <<>> ->
                                /\ Goto("menu")
                                /\ Diagnose({"GEMINI_KEY not found in .env"})
                         [] OTHER ->
                                /\ EnterRunTest(
                                        <<model_name(dict_get(res.env_vars, GEMINI_MODEL))>>,
                                        TRUE)
                                /\ Diagnose({})
             [] choice = "2" ->
                    /\ environ' = res.environ
                    /\ UNCHANGED <<file, written>>
                    /\ CASE res.raised -> Exit(1, {})
                         [] ~HasEntry(res.env_vars, GEMINI_MODEL) ->
                                /\ Goto("menu")
                                /\ Diagnose({"Current default model: Not set"})
                         [] OTHER ->
                                /\ Goto("menu")
                                /\ Diagnose({})
             [] choice = "3" ->
                    IF idx = 0
                    THEN /\ Goto("menu")
                         /\ Diagnose({"Invalid input"})
                         /\ UNCHANGED <<file, environ, written>>
                    ELSE /\ environ' = res.environ
                         /\ IF res.raised
                            THEN /\ Exit(1, {})
                                 /\ UNCHANGED <<file, written>>
                            ELSE LET M == DictPut(res.env_vars, GEMINI_MODEL,
                                                  ModelText(MODELS[idx]))
                                 IN  /\ file' = tm_save_env(M)
                                     /\ written' = [saved |-> TRUE, map |-> M]
                                     /\ Goto("menu")
                                     /\ Diagnose({})
             [] choice = "4" ->
                    /\ UNCHANGED <<file, environ, written>>
                    /\ CASE idx = 0 ->
                                /\ Goto("menu")
                                /\ Diagnose({"Invalid input"})
                         [] api_key = <<>> ->
                                /\ Goto("menu")
                                /\ Diagnose({"GEMINI_KEY not found in .env"})
                         [] OTHER ->
                                /\ EnterRunTest(ModelList(idx), TRUE)
                                /\ Diagnose({})
             [] choice \in {"5", "6"} ->
                    /\ UNCHANGED <<file, environ, written>>
                    /\ IF api_key = <<>>
                       THEN /\ Goto("menu")
                            /\ Diagnose({"GEMINI_KEY not found in .env"})
                       ELSE /\ EnterRunTest(MODELS, choice = "5")
                            /\ Diagnose({})
             [] OTHER ->
                    /\ Goto("menu")
                    /\ Diagnose({"Invalid option"})
                    /\ UNCHANGED <<file, environ, written>>
    /\ UNCHANGED <<env_vars, eop, keyVars>>

\* test-gemini-models.py from its import to the call of the pool: load_env
\* at import, then main.
GmMain ==
    /\ script = "test-gemini-models"
    /\ pc = "main"
    /\ LET res == gm_load_env(file, environ)
       IN  /\ environ' = res.environ
           /\ CASE res.raised -> Exit(1, {})
                [] dict_get(res.environ, GEMINI_KEY) = <<>> ->
                        Exit(0, {"GEMINI_KEY environment variable not set"})
                [] OTHER ->
                        /\ EnterRunTest(GM_MODELS, TRUE)
                        /\ UNCHANGED proc
    /\ UNCHANGED <<file, env_vars, written, eop, keyVars>>

\* main of debug-gemini.py up to its check of the key: load_env; the key
\* is looked up in the mapping returned, not in os.environ.
DebugLoad ==
    /\ script = "debug-gemini"
    /\ pc = "main"
    /\ LET res == debug_load_env(file, environ)
       IN  /\ env_vars' = res.env_vars
           /\ IF res.raised
              THEN /\ Exit(1, {})
                   /\ UNCHANGED keyVars
              ELSE /\ Goto("probing")
                   /\ kscript' = "debug-gemini"
                   /\ kkeys' = keys_set(res.env_vars)
                   /\ kpc' = "keys"
                   /\ klog' = <<>>
                   /\ UNCHANGED proc
    /\ UNCHANGED <<file, environ, written, eop>>

\* main of test-gemini-key.py up to its loop: load_env, and the return
\* when it is false.
TgkLoad ==
    /\ script = "test-gemini-key"
    /\ pc = "main"
    /\ LET res == tgk_load_env(file, environ)
       IN  /\ environ' = res.environ
           /\ CASE res.raised ->
                        /\ Exit(1, {})
                        /\ UNCHANGED keyVars
                [] ~res.returns.truth ->
                        /\ Exit(0, {"Failed to load .env file. Exiting."})
                        /\ UNCHANGED keyVars
                [] OTHER ->
                        /\ Goto("probing")
                        /\ kscript' = "test-gemini-key"
                        /\ kkeys' = keys_set(res.environ)
                        /\ kpc' = "keys"
                        /\ klog' = <<>>
                        /\ UNCHANGED proc
    /\ UNCHANGED <<file, env_vars, written, eop>>

\* The end of what main called: a return ends the process with status 0,
\* or shows the menu again; an exception nothing catches ends it with
\* status 1.
ProcessEnd ==
    /\ ~proc.exited
    /\ CASE pc = "returned" /\ proc.menu ->
                /\ BackToMenu
                /\ Diagnose({})
         [] pc = "returned" /\ ~proc.menu -> Exit(0, {})
         [] pc = "raised" -> Exit(1, {})
         [] pc = "probing" /\ kpc = "done" -> Exit(0, proc.diag)
         [] pc = "probing" /\ kpc = "raised" -> Exit(1, {})
         [] OTHER -> FALSE
    /\ UNCHANGED <<keyVars, envVars>>

\* A .env file with a key and a default model.
KeyModelFile ==
    FileOf(<< GEMINI_KEY \o <<"=", "A", "I", "z", "a", "1">>,
              GEMINI_MODEL \o <<"=">> \o ModelText("gemini-2.5-pro") >>)

\* A .env file whose key is empty.
BlankKeyFile == FileOf(<< GEMINI_KEY \o <<"=">> >>)

MainFiles == {NoFile, ExampleFile, KeyModelFile, BlankKeyFile}

MainScripts == {"test-models", "test-gemini-models", "debug-gemini", "test-gemini-key"}

\* The HTTP outcomes the probes of a whole process draw from.
MainResponses == {GoodJson, NoCandJson, HttpError(500, FALSE, "")}

MainKeyResponses ==
    {GoodJson, HttpError(429, TRUE, "{}"), HttpError(403, TRUE, "{}"),
     HttpError(500, FALSE, "")}

MenuChoices == {"0", "1", "2", "3", "4", "5", "6", "x"}

\* A script started from the shell: its flags (test-models.py only), the
\* .env file, and GEMINI_KEY exported or not.
InitMain ==
    /\ IdleKeys
    /\ script \in MainScripts
    /\ pc = "main"
    /\ models = <<>>
    /\ parallel = FALSE
    /\ fut = <<>>
    /\ resp = <<>>
    /\ pre = {}
    /\ finished_futures = <<>>
    /\ results = <<>>
    /\ pending = {}
    /\ completion = <<>>
    /\ printed = <<>>
    /\ saved = <<>>
    /\ file \in MainFiles
    /\ environ \in {<<>>, Exported}
    /\ env_vars = <<>>
    /\ written = NotWritten
    /\ eop = [script |-> None, op |-> "idle", i |-> 0, ret |-> ReturnsNone,
              typed |-> NothingTyped]
    /\ proc \in [args : IF script = "test-models" THEN SUBSET Flags ELSE {{}},
                 menu : {FALSE}, diag : {{}}, count : {NotCounted},
                 exited : {FALSE}, status : {0}]

NextMain ==
    \/ TmMain
    \/ \E choice \in MenuChoices, idx \in 0 .. Len(MODELS) : Menu(choice, idx)
    \/ GmMain
    \/ DebugLoad
    \/ TgkLoad
    \/ ProcessEnd
    \/ RunTest
    \/ Submit
    \/ \E t \in Tasks : WorkerStart(t)
    \/ \E t \in Tasks, r \in MainResponses : WorkerFinish(t, r)
    \/ AsCompleted
    \/ Collect
    \/ LoopEnd
    \/ Unwind
    \/ Report
    \/ \E r \in MainResponses : Sequential(r)
    \/ \E r \in MainKeyResponses : TestKeys(r)
    \/ \E r \in MainKeyResponses : DebugMain(r)
    \/ \E r \in MainKeyResponses : TestDifferentModels(r)

SpecMain == InitMain /\ [][NextMain]_vars

-----------------------------------------------------------------------------
(* The masked forms of a key written to the terminal.                      *)

MaxKeyLen == 22

Ellipsis == <<".", ".", ".">>

\* s[:n]
First(s, n) == SubSeq(s, 1, IF n < Len(s) THEN n ELSE Len(s))

\* s[-n:]
Last(s, n) == SubSeq(s, IF n < Len(s) THEN Len(s) - n + 1 ELSE 1, Len(s))

\* gemini-key-helper.py: the key listing of interactive_key_setup and the
\* line of validate_existing_keys.
masked(key) ==
    IF Len(key) > 12 THEN First(key, 8) \o Ellipsis \o Last(key, 4)
    ELSE First(key, 6) \o Ellipsis

\* gemini-key-helper.py: "Update ...? Current: ".
current_shown(key) == First(key, 8) \o Ellipsis

\* test-gemini-key.py: the "Loaded" line of load_env.
loaded_shown(value) == First(value, 20) \o (IF Len(value) > 20 THEN Ellipsis ELSE <<>>)

\* debug-gemini.py check_api_key_format: "Starts with" and "Ends with".
starts_with_shown(api_key) == First(api_key, 10) \o Ellipsis
ends_with_shown(api_key)   == Ellipsis \o Last(api_key, 10)

\* debug-gemini.py test_gemini_detailed: "Testing API Key".
testing_shown(api_key) == First(api_key, 8) \o Ellipsis \o Last(api_key, 4)

\* The keys: one of every length up to MaxKeyLen, no character twice.
KeyChars ==
    <<"A", "I", "z", "a", "S", "y", "B", "-", "0", "1", "2", "3", "4", "5", "6", "7",
      "8", "9", "b", "c", "d", "e", "f", "g", "h", "j">>

StoredKeys == {First(KeyChars, n) : n \in 1 .. MaxKeyLen}

\* The key the script has loaded as GEMINI_KEY.
stored_key == dict_get(env_vars, GEMINI_KEY)

Shown(site) == \E i \in 1 .. Len(printed) : printed[i].site = site

Show(site, text) ==
    /\ ~Shown(site)
    /\ printed' = Append(printed, [site |-> site, text |-> text])
    /\ UNCHANGED <<proc, keyVars, envVars, script, models, parallel, pc, fut, resp, pre,
                   finished_futures, results, pending, completion, saved>>

\* interactive_key_setup: the listing of the current keys.
KeyListing ==
    /\ eop.script = "gemini-key-helper"
    /\ Show("Current keys in .env", masked(stored_key))

\* interactive_key_setup: the prompt of a name that has a key.
UpdatePrompt ==
    /\ eop.script = "gemini-key-helper"
    /\ Shown("Current keys in .env")
    /\ Show("Update? Current", current_shown(stored_key))

\* validate_existing_keys: the line of a name that has a key.
ValidationLine ==
    /\ eop.script = "gemini-key-helper"
    /\ Show("Validating Existing Keys", masked(stored_key))

\* load_env of test-gemini-key.py: the line of an entry.
LoadedLine ==
    /\ eop.script = "test-gemini-key"
    /\ Show("Loaded", loaded_shown(stored_key))

\* check_api_key_format: its two lines.
CheckApiKeyFormat ==
    /\ eop.script = "debug-gemini"
    /\ ~Shown("Starts with")
    /\ printed' = printed \o << [site |-> "Starts with", text |-> starts_with_shown(stored_key)],
                               [site |-> "Ends with", text |-> ends_with_shown(stored_key)] >>
    /\ UNCHANGED <<proc, keyVars, envVars, script, models, parallel, pc, fut, resp, pre,
                   finished_futures, results, pending, completion, saved>>

\* test_gemini_detailed: its header, after the format check of main.
TestHeader ==
    /\ eop.script = "debug-gemini"
    /\ Shown("Starts with")
    /\ Show("Testing API Key", testing_shown(stored_key))

\* A script that has loaded a key and prints nothing yet.
InitMask ==
    /\ IdlePool
    /\ IdleKeys
    /\ IdleProc
    /\ file = NoFile
    /\ environ = <<>>
    /\ \E key \in StoredKeys : env_vars = << <<GEMINI_KEY, key>> >>
    /\ written = NotWritten
    /\ eop \in [script : {"gemini-key-helper", "test-gemini-key", "debug-gemini"},
                op : {"loaded"}, i : {0}, ret : {ReturnsNone}, typed : {NothingTyped}]

NextMask ==
    \/ KeyListing
    \/ UpdatePrompt
    \/ ValidationLine
    \/ LoadedLine
    \/ CheckApiKeyFormat
    \/ TestHeader

SpecMask == InitMask /\ [][NextMask]_vars

-----------------------------------------------------------------------------
(* Claims about the probe runner.                                          *)

ParallelBatch == parallel /\ Len(models) > 1

\* The probe of a task fails unless its call returns a 2xx JSON body with at
\* least one candidate.
ProbeFails(r) == ~(r.kind = "Json" /\ r.hasCandidates /\ Len(r.candidates) > 0)

\* The tasks whose HTTP call has ended.
Probed == {t \in Tasks : resp[t].kind # None}

\* The pair the batch owes task t: its model with the result of its own call.
Own(t) ==
    <<models[t],
      (IF script = "test-models"
       THEN test_model(models[t], resp[t])
       ELSE gm_test_model(models[t], resp[t])).value>>

ProbeRaises(t) ==
    (IF script = "test-models"
     THEN test_model(models[t], resp[t])
     ELSE gm_test_model(models[t], resp[t])).raised

\* C1 (as stated): in a parallel batch a failing probe is captured as its
\* task's result and never raises out of the batch: no future holds an
\* exception, the batch does not end by an exception, and once the
\* collecting loop is over every task's result has been collected.
C1_FailureCaptured ==
    ParallelBatch =>
        /\ \A t \in Finished : ~fut[t].holds.raised
        /\ pc \notin {"unwind", "raised"}
        /\ (pc \in {"report", "returned"} => Len(results) = Len(models))

\* C2 (as stated): when run_test is over it has returned exactly N pairs,
\* K of them failed with a non-empty error and N - K successful, K being
\* the number of probes that failed.
C2_ReturnsNResults ==
    (script = "test-models" /\ pc \in {"returned", "raised"}) =>
        /\ pc = "returned"
        /\ Len(results) = Len(models)
        /\ Cardinality({i \in 1 .. Len(results) :
                ~results[i][2].success /\ results[i][2].error # ""})
             = Cardinality({t \in Probed : ProbeFails(resp[t])})
        /\ Cardinality({i \in 1 .. Len(results) : results[i][2].success})
             = Len(models) - Cardinality({t \in Probed : ProbeFails(resp[t])})

\* C4: in a parallel batch every collected pair is some task's model with
\* the result of that task's own call; on return the collection holds
\* exactly one such pair per task, whatever the order of completion; and
\* whether the batch returns or raises is decided by the outcomes alone.
C4_OwnOutcome ==
    ParallelBatch =>
        /\ \A i \in 1 .. Len(results) :
                \E t \in Probed : ~ProbeRaises(t) /\ results[i] = Own(t)
        /\ (pc = "returned" =>
                /\ \A t \in Tasks : t \in Probed /\ ~ProbeRaises(t)
                /\ \A t \in Tasks :
                        Cardinality({i \in 1 .. Len(results) : results[i] = Own(t)})
                          = Cardinality({u \in Tasks : Own(u) = Own(t)}))
        /\ (pc = "raised" => \E t \in Probed : ProbeRaises(t))

\* C4's case: a parallel batch of three tasks with different outcomes has
\* returned, the first collected result not being the first task's.
C4_Witness ==
    /\ ParallelBatch
    /\ script = "test-models"
    /\ pc = "returned"
    /\ Len(models) = 3
    /\ resp[1] # resp[3]
    /\ results[1] # Own(1)
    /\ results[1] # Own(3)

\* C5: never more than max_workers probes in flight; a task beyond the
\* first max_workers is started only once a probe has finished; and the
\* dispatcher collects only after every task has been submitted.
C5_PoolCap ==
    /\ Cardinality(InFlight) <= max_workers
    /\ \A t \in InFlight \cup Finished : t > max_workers => Finished # {}
    /\ Cardinality(InFlight \cup Finished) <= max_workers + Cardinality(Finished)
    /\ (pc \in {"as_completed", "collect", "unwind", "report"} \/ results # <<>>) =>
            \A t \in Tasks : fut[t].state # "unsubmitted"

\* C5's case: a task beyond the first max_workers, which had to wait in the
\* queue, is running and the pool is full again.
C5_Witness ==
    /\ Len(models) > max_workers
    /\ Cardinality(InFlight) = max_workers
    /\ \E t \in InFlight : t > max_workers

\* The report loop prints and saves the results in the order of the list.
PrintedInListOrder ==
    /\ Len(printed) <= Len(results)
    /\ \A i \in 1 .. Len(printed) : printed[i] = results[i]
    /\ saved = printed

\* Sequential mode: the list is in submission order.
SequentialInSubmissionOrder ==
    ~ParallelBatch =>
        \A i \in 1 .. Len(results) : i \in Probed /\ results[i] = Own(i)

\* A step of the collecting loop that takes a future.
Yields == pc = "collect" /\ Len(completion') < Len(completion)

\* C6 (as stated): in parallel mode every result appended is that of the
\* probe that completed first among those not yet appended; the list is
\* printed and saved in its own order; sequential mode keeps submission order.
C6_CompletionOrder ==
    /\ [][Yields => completion' = Tail(completion)]_vars
    /\ [](PrintedInListOrder /\ SequentialInSubmissionOrder)

\* C6 (amended): the futures already finished when as_completed is called
\* are taken first, in any order; the others are taken in the order their
\* probes complete; printing, saving and sequential mode as stated.
C6_YieldOrder ==
    /\ [][Yields =>
            IF pre # {}
            THEN \E t \in pre : completion' = SelectSeq(completion, LAMBDA u : u # t)
            ELSE completion' = Tail(completion)]_vars
    /\ [](PrintedInListOrder /\ SequentialInSubmissionOrder)

\* C6's case: a parallel batch of three has returned after as_completed
\* yielded a later model's future first, and its results were printed and
\* saved in that order.
C6_Witness ==
    /\ pc = "returned"
    /\ ParallelBatch
    /\ Len(printed) = 3
    /\ printed[1][1] = models[2]
    /\ saved = printed

\* C7 (as stated): every dispatched probe whose call has ended has produced
\* a result, the batch ends only by returning, and it returns only when
\* every dispatched probe has finished.
C7_RunsToCompletion ==
    /\ \A t \in Probed : ~ProbeRaises(t)
    /\ pc # "raised"
    /\ (pc = "returned" /\ ParallelBatch => Finished = Tasks)

-----------------------------------------------------------------------------
(* Claims about the probe primitives.                                      *)

\* The outcomes of C3: the call times out, cannot connect, or returns a
\* body that is not JSON.
ConnectionFailures == {TimedOut, Refused, NotJson}

\* C3: a probe whose call times out, cannot connect or returns a body that
\* is not JSON does not raise, and returns its primitive's failed /
\* connection-error value: test_model a failed result carrying the
\* exception's text, test_key "ERR connection failed", test_api_key
\* (False, "Connection error: ..."), test_gemini_detailed False.
C3_ConnectionErrorCaptured ==
    /\ \A t \in Finished :
            resp[t] \in ConnectionFailures =>
                /\ ~fut[t].holds.raised
                /\ IF script = "test-models"
                   THEN /\ ~fut[t].holds.value[2].success
                        /\ fut[t].holds.value[2].error = resp[t].msg
                   ELSE fut[t].holds.value[2].what = "Error for"
    /\ (~ParallelBatch /\ pc # "idle") =>
            \A t \in Probed :
                resp[t] \in ConnectionFailures =>
                    /\ t <= Len(results)
                    /\ ~results[t][2].success
                    /\ results[t][2].error = resp[t].msg
    /\ \A i \in 1 .. Len(klog) :
            klog[i].r \in ConnectionFailures =>
                /\ ~klog[i].ret.raised
                /\ CASE klog[i].prim = "test_key" ->
                            klog[i].ret.value = "ERR connection failed"
                     [] klog[i].prim = "test_api_key" ->
                            /\ ~klog[i].ret.value.is_valid
                            /\ klog[i].ret.value.message
                                    = "Connection error: " \o klog[i].r.msg \o "..."
                     [] OTHER -> klog[i].ret.value = FALSE

\* C3's case: test_key has met a timeout, a body that is not JSON and a
\* refused connection.
C3_Witness ==
    /\ Len(klog) = 3
    /\ klog[1].prim = "test_key" /\ klog[1].r = TimedOut
    /\ klog[2].prim = "test_key" /\ klog[2].r = NotJson
    /\ klog[3].prim = "test_key" /\ klog[3].r = Refused

-----------------------------------------------------------------------------
(* Claims about the .env loaders and writers.                              *)

\* The position of a key in a dict.
DictIndex(d, key) == (CHOOSE i \in 1 .. Len(d) : d[i][1] = key)

HasKey(d, key) == \E i \in 1 .. Len(d) : d[i][1] = key

\* The mapping a load_env call produced: the dict it returns, or os.environ
\* for the loaders that return none.
LoadedMap ==
    IF eop.script \in {"test-gemini-models", "test-gemini-key"}
    THEN environ
    ELSE env_vars

\* A value with no quote or whitespace character at either end.
Clean(v) ==
    v = <<>> \/ (v[1] \notin Quotes \cup Whitespace /\ v[Len(v)] \notin Quotes \cup Whitespace)

FreshLoad == eop.op = "loaded" /\ ~written.saved

\* C8: for every KEY=VALUE line, with optional quotes around the value and
\* optional whitespace around key, separator and value, every load_env
\* yields a value with no quote or whitespace character at either end.
C8_ValuesClean ==
    FreshLoad => \A i \in 1 .. Len(LoadedMap) : Clean(LoadedMap[i][2])

-----------------------------------------------------------------------------
(* The multi-line loader.                                                  *)

FileLines == split(file.content, "\n")

Stripped(i) == strip(FileLines[i])

IsSeparatorLine(i) == ~skipped(Stripped(i)) /\ Contains(Stripped(i), "=")

IsContinuationLine(i) == ~skipped(Stripped(i)) /\ ~Contains(Stripped(i), "=")

\* The line after the entry that starts at line i: the next line with a
\* separator, or the end of the input.
EntryEnd(i) ==
    IF \E j \in i + 1 .. Len(FileLines) : IsSeparatorLine(j)
    THEN CHOOSE j \in i + 1 .. Len(FileLines) :
            IsSeparatorLine(j) /\ \A k \in i + 1 .. j - 1 : ~IsSeparatorLine(k)
    ELSE Len(FileLines) + 1

RECURSIVE Continuations(_, _)
\* The contents of the continuation lines lo .. hi, in file order, nothing
\* in between.
Continuations(lo, hi) ==
    IF lo > hi THEN <<>>
    ELSE (IF IsContinuationLine(lo) THEN strip_quotes(Stripped(lo)) ELSE <<>>)
            \o Continuations(lo + 1, hi)

\* The initial value of the entry of line i followed by its continuations.
EntryValue(i) ==
    strip_quotes(partition(Stripped(i), "=")[3]) \o Continuations(i + 1, EntryEnd(i) - 1)

EntryKey(i) == strip(partition(Stripped(i), "=")[1])

\* The lines that start the entry a key ends up with: the last one of the key.
Entries ==
    {i \in 1 .. Len(FileLines) :
        /\ IsSeparatorLine(i)
        /\ EntryKey(i) # <<>>
        /\ \A j \in i + 1 .. Len(FileLines) :
                IsSeparatorLine(j) => EntryKey(j) # EntryKey(i)}

MultiLineLoaded == eop.script = "test-gemini-key" /\ eop.op = "loaded" /\ file.exists

\* C9: the multi-line loader stores for KEY the initial value followed by
\* the contents of the continuation lines, in file order, nothing added;
\* an entry ends at the next line with a separator or at the end of the
\* input, and blank and comment lines neither end it nor add to it.
C9_ContinuationsConcatenated ==
    MultiLineLoaded =>
        /\ \A i \in Entries :
                /\ HasKey(environ, EntryKey(i))
                /\ environ[DictIndex(environ, EntryKey(i))][2] = EntryValue(i)
        /\ \A n \in 1 .. Len(environ) : \E i \in Entries : EntryKey(i) = environ[n][1]

\* C9's case: an entry with a comment line and a continuation line before
\* the next entry, which the end of the input closes.
C9_Witness ==
    /\ MultiLineLoaded
    /\ \E i \in Entries :
            /\ EntryEnd(i) <= Len(FileLines)
            /\ \E j \in i + 1 .. EntryEnd(i) - 1 : IsContinuationLine(j)
            /\ \E j \in i + 1 .. EntryEnd(i) - 1 : skipped(Stripped(j))
            /\ EntryEnd(i) \in Entries

-----------------------------------------------------------------------------
(* The round trip.                                                         *)

\* C10: for every mapping M a script writes with save_env, the same
\* script's load_env then yields a mapping equal to M.
C10_RoundTrip ==
    (eop.op = "loaded" /\ written.saved) =>
        Range(env_vars) = Range(written.map)

-----------------------------------------------------------------------------
(* Duplicate keys.                                                         *)

\* The lines of the file as the single-line loaders see them.
SimpleLines == readlines(file.content)

\* The lines from which a single-line loader takes an entry.
IsEntryLine(i) ==
    LET line == strip(SimpleLines[i])
    IN  ~skipped(line) /\ Contains(line, "=")

\* The last line of the file that sets the key.
LastLineOf(key) ==
    CHOOSE i \in 1 .. Len(SimpleLines) :
        /\ IsEntryLine(i) /\ line_key(strip(SimpleLines[i])) = key
        /\ \A j \in i + 1 .. Len(SimpleLines) :
                IsEntryLine(j) => line_key(strip(SimpleLines[j])) # key

\* The keys the file sets.
FileKeys ==
    IF eop.script = "test-gemini-key"
    THEN {EntryKey(i) : i \in Entries}
    ELSE {line_key(strip(SimpleLines[i])) : i \in {j \in 1 .. Len(SimpleLines) : IsEntryLine(j)}}

\* The value of the last occurrence of a key, as the script's loader reads it.
LastValue(key) ==
    IF eop.script = "test-gemini-key"
    THEN EntryValue(CHOOSE i \in Entries : EntryKey(i) = key)
    ELSE line_value(strip(SimpleLines[LastLineOf(key)]))

\* A dict with exactly one entry for each of the keys, holding the value of
\* the key's last occurrence in the file.
LastWins(d) ==
    /\ \A i, j \in 1 .. Len(d) : d[i][1] = d[j][1] => i = j
    /\ {d[i][1] : i \in 1 .. Len(d)} = FileKeys
    /\ \A i \in 1 .. Len(d) : d[i][2] = LastValue(d[i][1])

\* C11: when a key appears on several lines, the loaded mapping has exactly
\* one entry for it, with the value of its last occurrence in the file, in
\* the returned dict and in os.environ alike.
C11_LastWriteWins ==
    (FreshLoad /\ file.exists) =>
        /\ eop.script \in {"test-models", "debug-gemini", "gemini-key-helper"}
                => LastWins(env_vars)
        /\ eop.script \in {"test-models", "test-gemini-models", "test-gemini-key"}
                => LastWins(environ)

\* C11's case: test-models.py has loaded a file whose lines set K twice,
\* to different values.
C11_Witness ==
    /\ FreshLoad
    /\ eop.script = "test-models"
    /\ \E i, j \in 1 .. Len(SimpleLines) :
            /\ i < j /\ IsEntryLine(i) /\ IsEntryLine(j)
            /\ line_key(strip(SimpleLines[i])) = line_key(strip(SimpleLines[j]))
            /\ line_value(strip(SimpleLines[i])) # line_value(strip(SimpleLines[j]))
    /\ Len(env_vars) = 1
    /\ environ = env_vars

-----------------------------------------------------------------------------
(* A missing .env file.                                                    *)

\* A step in which the script's load_env ran and nothing was saved after it.
LoadStep == eop'.op \in {"loaded", "raised", "setup"} /\ eop'.op # eop.op

\* C12 (as stated): with no .env file the loader returns an empty mapping,
\* raises nothing and leaves os.environ as it was.
C12_ReturnsEmptyMapping ==
    [][(LoadStep /\ ~file.exists) =>
            /\ eop'.op # "raised"
            /\ eop'.ret.type = "dict" /\ ~eop'.ret.truth
            /\ environ' = environ]_vars

\* C12 (amended): with no .env file the loader raises nothing, adds no
\* entry and leaves os.environ as it was; the loaders that return a dict
\* return an empty one, test-gemini-key.py's returns False and
\* test-gemini-models.py's returns None.
C12_FailsSoftly ==
    [][(LoadStep /\ ~file.exists) =>
            /\ eop'.op # "raised"
            /\ env_vars' = <<>>
            /\ environ' = environ
            /\ eop'.ret = CASE eop.script = "test-gemini-key" -> ReturnsBool(FALSE)
                            [] eop.script = "test-gemini-models" -> ReturnsNone
                            [] OTHER -> ReturnsDict(<<>>)]_vars

\* C12's case: debug-gemini.py has called load_env with no .env file while
\* GEMINI_KEY is exported.
C12_Witness ==
    /\ eop.script = "debug-gemini"
    /\ eop.op = "loaded"
    /\ ~file.exists
    /\ environ = Exported
    /\ env_vars = <<>>

-----------------------------------------------------------------------------
(* Key and value of a line.                                                *)

\* v begins with u.
IsPrefix(u, v) == Len(u) <= Len(v) /\ SubSeq(v, 1, Len(u)) = u

\* The position of the first '=' of line i; 0 when the line is empty, a
\* comment, or has none.
FirstSeparator(i) ==
    LET L == Stripped(i)
    IN  IF L # <<>> /\ L[1] # "#" /\ \E p \in 1 .. Len(L) : L[p] = "="
        THEN CHOOSE p \in 1 .. Len(L) : L[p] = "=" /\ \A q \in 1 .. p - 1 : L[q] # "="
        ELSE 0

\* Everything before the first '=' of line i, and everything after it.
BeforeSeparator(i) == SubSeq(Stripped(i), 1, FirstSeparator(i) - 1)
AfterSeparator(i)  == SubSeq(Stripped(i), FirstSeparator(i) + 1, Len(Stripped(i)))

\* The entry <<k, v>> is the one line i gives: k is what precedes the first
\* '=', v what follows it (quote-stripped; the multi-line loader may add
\* continuation lines to it).
FromLine(i, k, v) ==
    /\ FirstSeparator(i) > 0
    /\ k = strip(BeforeSeparator(i))
    /\ IF eop.script = "test-gemini-key"
       THEN IsPrefix(strip_quotes(AfterSeparator(i)), v)
       ELSE v = strip(strip_quotes(AfterSeparator(i)))

\* Every entry comes from a line that is neither empty nor a comment.
EntriesFromLines ==
    \A n \in 1 .. Len(LoadedMap) :
        \E i \in 1 .. Len(FileLines) : FromLine(i, LoadedMap[n][1], LoadedMap[n][2])

\* C13: every line with a '=' gives an entry whose key is what
\* precedes the first '=' and whose value is what follows it, and empty
\* lines and lines that begin with '#' give none.
C13_KeyBeforeFirstSeparator ==
    (FreshLoad /\ file.exists) =>
        /\ EntriesFromLines
        /\ \A i \in 1 .. Len(FileLines) :
                FirstSeparator(i) > 0 => HasKey(LoadedMap, strip(BeforeSeparator(i)))

-----------------------------------------------------------------------------
(* Classification of the HTTP status of a key probe.                       *)

\* The probes of the key checkers' two primitives.
KeyProbes == {i \in 1 .. Len(klog) : klog[i].prim \in {"test_key", "test_api_key"}}

HasStatus(i, code) == klog[i].r.kind = "HTTPError" /\ klog[i].r.code = code

\* What the two statuses are classified as.
ClassifiedRateLimited(i) ==
    IF klog[i].prim = "test_key"
    THEN klog[i].ret = Return("valid but rate limited")
    ELSE klog[i].ret = Return(KeyStatus(FALSE, "Rate limited - key might be valid", <<>>))

ClassifiedDenied(i) ==
    IF klog[i].prim = "test_key"
    THEN klog[i].ret = Return("ERR invalid key")
    ELSE klog[i].ret = Return(KeyStatus(FALSE, "API key denied - check permissions", <<>>))

\* Probe j of the same primitive had another outcome than the status and
\* was classified as probe i.
SharesClass(i, j, code) ==
    /\ klog[j].prim = klog[i].prim
    /\ ~HasStatus(j, code)
    /\ klog[j].ret = klog[i].ret

\* C14 (as stated): test_key and test_api_key classify 429 as rate limited
\* and 403 as denied, and no other status, response or connection error is
\* given either classification.
C14_DistinctClassifications ==
    \A i \in KeyProbes :
        /\ HasStatus(i, 429) =>
                ClassifiedRateLimited(i) /\ \A j \in KeyProbes : ~SharesClass(i, j, 429)
        /\ HasStatus(i, 403) =>
                ClassifiedDenied(i) /\ \A j \in KeyProbes : ~SharesClass(i, j, 403)

\* C14 (amended): as stated, except that test_key gives 400 the
\* classification of 403.
C14_DistinctExceptBadRequest ==
    \A i \in KeyProbes :
        /\ HasStatus(i, 429) =>
                ClassifiedRateLimited(i) /\ \A j \in KeyProbes : ~SharesClass(i, j, 429)
        /\ HasStatus(i, 403) =>
                /\ ClassifiedDenied(i)
                /\ \A j \in KeyProbes :
                        SharesClass(i, j, 403) =>
                            klog[i].prim = "test_key" /\ HasStatus(j, 400)

\* C14's case: test_key has met 429, 403 and 400.
C14_Witness ==
    /\ Len(klog) = 3
    /\ \A i \in 1 .. 3 : klog[i].prim = "test_key"
    /\ HasStatus(1, 429) /\ HasStatus(2, 403) /\ HasStatus(3, 400)
    /\ klog[2].ret = klog[3].ret

-----------------------------------------------------------------------------
(* Responses with candidates.                                              *)

\* A 2xx response whose JSON body has a 'candidates' array with an entry.
HasCandidate(r) == r.kind = "Json" /\ r.hasCandidates /\ Len(r.candidates) > 0

\* C15: a 2xx response with at least one candidate is a success for every
\* probe primitive, whatever the shape of the first candidate: test_model
\* returns a successful result, test_key "valid", test_api_key (True, text),
\* test_gemini_detailed True.
C15_CandidateIsSuccess ==
    /\ \A t \in Finished :
            HasCandidate(resp[t]) =>
                /\ ~fut[t].holds.raised
                /\ IF script = "test-models"
                   THEN fut[t].holds.value[2].success
                   ELSE fut[t].holds.value[2].what = "content"
    /\ \A i \in 1 .. Len(klog) :
            HasCandidate(klog[i].r) =>
                /\ ~klog[i].ret.raised
                /\ CASE klog[i].prim = "test_key" -> klog[i].ret.value = "valid"
                     [] klog[i].prim = "test_api_key" -> klog[i].ret.value.is_valid
                     [] OTHER -> klog[i].ret.value = TRUE

-----------------------------------------------------------------------------
(* HTTP error statuses and error bodies.                                   *)

\* A 2xx response whose body carries an 'error' object and no candidates.
ErrorBody(r) == r.kind = "Json" /\ r.hasError /\ ~HasCandidate(r)

\* C16: a non-2xx status is reported with its status code, a 2xx response
\* with an 'error' object and no candidates as a response without
\* candidates, and neither as a success, by test_model and by test_key.
C16_StatusDistinguished ==
    /\ script = "test-models" =>
            \A t \in Finished :
                /\ resp[t].kind = "HTTPError" =>
                        /\ ~fut[t].holds.raised
                        /\ ~fut[t].holds.value[2].success
                        /\ fut[t].holds.value[2].error
                                = "HTTP " \o ToString(resp[t].code) \o ": " \o resp[t].body \o "..."
                /\ ErrorBody(resp[t]) =>
                        /\ ~fut[t].holds.raised
                        /\ ~fut[t].holds.value[2].success
                        /\ fut[t].holds.value[2].error = "No candidates in response"
    /\ \A i \in 1 .. Len(klog) :
            klog[i].prim = "test_key" =>
                /\ klog[i].r.kind = "HTTPError" =>
                        klog[i].ret = Return("ERR " \o ToString(klog[i].r.code))
                /\ ErrorBody(klog[i].r) => klog[i].ret = Return("ERR no response")


-----------------------------------------------------------------------------
(* The main functions: the missing key, the flags, the summaries.          *)

\* The value main tests for GEMINI_KEY: debug-gemini.py looks it up in the
\* mapping load_env returned, the others in os.environ.
KeyChecked ==
    IF script = "debug-gemini"
    THEN dict_get(env_vars, GEMINI_KEY)
    ELSE dict_get(environ, GEMINI_KEY)

\* No probe was issued by the process.
NoProbeIssued ==
    /\ \A t \in 1 .. Len(resp) : resp[t] = NoCall
    /\ klog = <<>>

\* C17: when GEMINI_KEY is absent, main of test-models.py, debug-gemini.py
\* and test-gemini-models.py prints a diagnostic, issues no probe, and the
\* process ends with a non-zero exit status.
C17_MissingKeyExitsNonZero ==
    (/\ script \in {"test-models", "debug-gemini", "test-gemini-models"}
     /\ proc.exited
     /\ ~proc.menu
     /\ KeyChecked = <<>>)
        => /\ proc.diag # {}
           /\ NoProbeIssued
           /\ proc.status # 0


\* main of test-models.py has passed its check of the key.
TmMainPassed ==
    /\ script = "test-models"
    /\ pc # "main"
    /\ dict_get(environ, GEMINI_KEY) # <<>>

\* The model the default mode probes: the one GEMINI_MODEL names, else
\* gemini-2.5-flash.
ConfiguredModel ==
    IF HasEntry(environ, GEMINI_MODEL) /\ dict_get(environ, GEMINI_MODEL) # <<>>
    THEN model_name(dict_get(environ, GEMINI_MODEL))
    ELSE "gemini-2.5-flash"

\* No future was ever submitted to a pool.
PoolUnused ==
    /\ \A t \in Tasks : fut[t].state = "unsubmitted"
    /\ pre = {} /\ pending = {} /\ completion = <<>>

BatchSuccesses ==
    Cardinality({i \in 1 .. Len(results) :
        IF script = "test-models" THEN results[i][2].success
        ELSE results[i][2].what = "content"})

\* The number of the keys of a finished key check that were found working.
KeySuccesses ==
    Cardinality({i \in 1 .. Len(klog) :
        IF kscript = "test-gemini-key"
        THEN klog[i].ret.value \in {"valid", "valid but rate limited"}
        ELSE klog[i].prim = "test_api_key" /\ klog[i].ret.value.is_valid})

\* C19: a batch operation that has finished (run_test, main of
\* test-gemini-models.py, main of test-gemini-key.py, validate_existing_keys)
\* has reported one line per item and a count of successes that equals the
\* number of the items that succeeded.
C19_SuccessCountReported ==
    /\ pc = "returned" =>
            /\ Len(printed) = Len(models)
            /\ proc.count = [reported |-> TRUE, n |-> BatchSuccesses]
    /\ (kpc = "done" /\ kscript \in {"test-gemini-key", "gemini-key-helper"}) =>
            /\ Len(klog) = Len(KEY_NAMES)
            /\ proc.count = [reported |-> TRUE, n |-> KeySuccesses]


-----------------------------------------------------------------------------
(* What a batch writes while its probes are under way.                     *)

\* run_test of test-models.py has been entered and has not returned.
InRunTest ==
    /\ script = "test-models"
    /\ pc \in {"start", "submit", "as_completed", "collect", "report", "sequential", "unwind"}

\* A probe of the batch has not completed yet.
ProbeOutstanding == \E t \in Tasks : resp[t] = NoCall

ParallelMode == parallel /\ Len(models) > 1

\* C20: while run_test has a probe that has not completed, no result file
\* has been written, in parallel and in sequential mode alike.
C20_NoFileBeforeLastProbe ==
    (InRunTest /\ ProbeOutstanding) => saved = <<>>

\* C20 (amended): run_test changes neither the .env file nor os.environ in
\* either mode; in parallel mode no result file is written while a probe is
\* outstanding; in sequential mode the file of each result is written right
\* after its probe, before the next probe is dispatched.
C20_FilesFollowProbes ==
    /\ [](InRunTest =>
            /\ (ParallelMode /\ ProbeOutstanding) => saved = <<>>
            /\ ~ParallelMode => saved = results)
    /\ [][InRunTest => (file' = file /\ environ' = environ)]_vars

\* A parallel batch of two writes the file of its first result, both
\* probes completed, the .env file and os.environ loaded by main.
C20_Witness ==
    /\ InRunTest
    /\ ParallelMode
    /\ pc = "report"
    /\ ~ProbeOutstanding
    /\ Len(saved) = 1
    /\ file.exists
    /\ environ # <<>>


-----------------------------------------------------------------------------
(* The update of the default model.                                        *)

\* The mapping the load_env of script s reads from file f: the dict it
\* returns, or what it puts into an empty os.environ.
MapReadBy(s, f) ==
    LET res == load_env(s, f, <<>>)
    IN  IF s \in {"test-gemini-models", "test-gemini-key"} THEN res.environ
        ELSE res.env_vars

DictKeys(d) == {d[i][1] : i \in 1 .. Len(d)}

\* A step of update_default_model that wrote the file.
UpdateStep == eop.script = "test-models" /\ eop'.op = "saved"

\* C21: after update_default_model the file, as read by each of the
\* loaders, maps GEMINI_MODEL to the selected model and every other key to
\* the value it had before the update.
C21_OnlyModelChanged ==
    [][UpdateStep =>
        \A s \in LoaderScripts :
            LET before == MapReadBy(s, file)
                after  == MapReadBy(s, file')
            IN  /\ dict_get(after, GEMINI_MODEL) = dict_get(written'.map, GEMINI_MODEL)
                /\ DictKeys(after) \ {GEMINI_MODEL} = DictKeys(before) \ {GEMINI_MODEL}
                /\ \A k \in DictKeys(before) \ {GEMINI_MODEL} :
                        dict_get(after, k) = dict_get(before, k)]_vars


-----------------------------------------------------------------------------
(* The loaders compared.                                                   *)

\* Every line of the file that is neither blank nor a comment has an '='.
EveryLineSeparated ==
    /\ file.exists
    /\ \A i \in 1 .. Len(FileLines) : ~IsContinuationLine(i)

SameMapping(d, e) ==
    /\ DictKeys(d) = DictKeys(e)
    /\ \A k \in DictKeys(d) : dict_get(d, k) = dict_get(e, k)

\* C22: on a file in which every line that is neither blank nor a comment
\* has an '=', the script's load_env raises nothing and produces the mapping
\* that the load_env of every other script produces from the same file.
C22_SameLoader ==
    (eop.op \in {"loaded", "raised"} /\ EveryLineSeparated) =>
        /\ eop.op = "loaded"
        /\ \A s \in LoaderScripts :
                /\ ~load_env(s, file, <<>>).raised
                /\ SameMapping(LoadedMap, MapReadBy(s, file))


-----------------------------------------------------------------------------
(* The interactive key setup.                                              *)

\* A round of the loop of interactive_key_setup over the three names.
SetupRound == eop.op = "setup" /\ eop'.op = "setup" /\ eop'.i = eop.i + 1

\* The step that answers the final prompt.
SetupEnd == eop.op = "setup" /\ eop'.op # "setup"

\* The key typed in the round failed its validation.
FailedValidation(typed) ==
    typed.new_key # <<>> /\ ~test_api_key(typed.r).value.is_valid

\* C23: in interactive_key_setup a key that fails validation is stored only
\* when the user confirms "Save anyway"; a name the user declines to update
\* or skips keeps its value, as does every other name; the .env file is
\* written by the final step only, and only when the answer is not 'n'.
C23_StoredOnlyWhenConfirmed ==
    [][/\ SetupRound =>
            LET name  == KeyText(KEY_NAMES[eop.i])
                typed == eop'.typed
            IN  /\ (FailedValidation(typed) /\ ~typed.anyway) => env_vars' = env_vars
                /\ typed.new_key = <<>> => env_vars' = env_vars
                /\ env_vars' # env_vars =>
                        /\ typed.new_key # <<>>
                        /\ dict_get(env_vars', name) = typed.new_key
                /\ \A k \in DictKeys(env_vars) \cup DictKeys(env_vars') :
                        k # name =>
                            /\ HasEntry(env_vars, k) <=> HasEntry(env_vars', k)
                            /\ dict_get(env_vars', k) = dict_get(env_vars, k)
                /\ file' = file
       /\ SetupEnd =>
            /\ file' # file => eop'.typed.save
            /\ ~eop'.typed.save => (file' = file /\ written' = written)
            /\ eop'.typed.save => file' = helper_save_env(env_vars)]_vars

\* A key in place of an existing one failed its validation and was stored
\* after "Save anyway".
C23_Witness ==
    /\ eop.script = "gemini-key-helper"
    /\ eop.op = "setup"
    /\ eop.i > 1
    /\ eop.typed.update
    /\ eop.typed.anyway
    /\ FailedValidation(eop.typed)
    /\ dict_get(env_vars, KeyText(KEY_NAMES[eop.i - 1])) = eop.typed.new_key


-----------------------------------------------------------------------------
(* The text taken from the first candidate.                                *)

\* The reason the diagnostic names: UNKNOWN for a missing finishReason.
ReasonNamed(c) == IF c.finishReason = None THEN "UNKNOWN" ELSE c.finishReason

\* The first candidate ended with STOP and carries a text part.
StoppedWithText(c) == c.finishReason = "STOP" /\ c.where \in {"content", "parts"}

\* C24: for a response with candidates the result of test_model has
\* success = True and error = None; its output is the stripped text of the
\* first candidate exactly when that candidate's finishReason is STOP and it
\* has a text part, and otherwise a diagnostic that names the finish reason
\* (or, for STOP, the missing text) and not the candidate's text.
C24_OutputFollowsFinishReason ==
    script = "test-models" =>
        \A i \in 1 .. Len(results) :
            (resp[i].kind = "Json" /\ resp[i].hasCandidates /\ Len(resp[i].candidates) > 0) =>
                LET c      == resp[i].candidates[1]
                    result == results[i][2]
                IN  /\ result.success
                    /\ result.error = None
                    /\ result.output.msg = None <=> StoppedWithText(c)
                    /\ StoppedWithText(c) => result.output.text = strip(c.text)
                    /\ ~StoppedWithText(c) => result.output.text = <<>>
                    /\ c.finishReason = "MAX_TOKENS" =>
                            result.output.msg
                                = "Response truncated (hit token limit: MAX_TOKENS)"
                    /\ c.finishReason = "SAFETY" =>
                            result.output.msg
                                = "Response blocked by safety filters: SAFETY"
                    /\ c.finishReason \notin {"STOP", "MAX_TOKENS", "SAFETY"} =>
                            result.output.msg = "Unexpected finish reason: " \o ReasonNamed(c)
                    /\ (c.finishReason = "STOP" /\ ~StoppedWithText(c)) =>
                            result.output.msg \in
                                {"No text in response content", "No text in response parts",
                                 "No text found (finish reason: STOP)"}

\* A truncated first candidate with a text part, and a first candidate
\* without finishReason, were both reported by their diagnostics.
C24_Witness ==
    /\ script = "test-models"
    /\ Len(results) = 2
    /\ resp[1].candidates[1].finishReason = "MAX_TOKENS"
    /\ resp[1].candidates[1].where = "content"
    /\ results[1][2].output.text = <<>>
    /\ resp[2].kind = "Json"
    /\ resp[2].candidates[1].finishReason = None
    /\ results[2][2].output.msg = "Unexpected finish reason: UNKNOWN"


-----------------------------------------------------------------------------
(* Keys on the terminal.                                                   *)

\* The text holds the whole key.
ShowsInFull(key, text) ==
    \E j \in 0 .. Len(text) - Len(key) : SubSeq(text, j + 1, j + Len(key)) = key

\* C25: no masked form written to the terminal holds the stored key in
\* full, whatever the length of the key.
C25_KeyNeverShownInFull ==
    \A i \in 1 .. Len(printed) : ~ShowsInFull(stored_key, printed[i].text)

====
